---- MODULE Spec2Model ----
(***************************************************************************)
(* A model of the OSO reader of oslquery-petite: the line dispatcher       *)
(* (parser/reader.rs), the tokenizer and grammars (parser/oso.rs), the     *)
(* hint parsers (parser/hint.rs), the conversion of a ParsedParameter into *)
(* a typed Parameter (types.rs) and the query it fills (query.rs).         *)
(*                                                                         *)
(* Text is modelled as TLA+ strings, read character by character.          *)
(* Option<T> is a sequence of length 0 (None) or 1 (Some).  An f32 is the  *)
(* exact decimal <<n, k>> = n / 10^k with k minimal; the inputs are short  *)
(* decimals, which f32 parsing maps to distinct values.                    *)
(***************************************************************************)
EXTENDS Integers, Sequences, FiniteSets, TLC

(***************************************************************************)
(* Characters and strings (std::str)                                       *)
(***************************************************************************)

Ch(s, i) == SubSeq(s, i, i)

Drop(s, n) == SubSeq(s, n + 1, Len(s))

StartsWith(s, p) == Len(s) >= Len(p) /\ SubSeq(s, 1, Len(p)) = p

EndsWith(s, p) == Len(s) >= Len(p) /\ SubSeq(s, Len(s) - Len(p) + 1, Len(s)) = p

\* char::is_whitespace, on the characters the inputs use
IsWhitespace(c) == c \in {" ", "\t", "\r", "\n"}

Digits == {"0", "1", "2", "3", "4", "5", "6", "7", "8", "9"}

Letters ==
    {"a", "b", "c", "d", "e", "f", "g", "h", "i", "j", "k", "l", "m",
     "n", "o", "p", "q", "r", "s", "t", "u", "v", "w", "x", "y", "z",
     "A", "B", "C", "D", "E", "F", "G", "H", "I", "J", "K", "L", "M",
     "N", "O", "P", "Q", "R", "S", "T", "U", "V", "W", "X", "Y", "Z"}

DigitVal(c) ==
    CASE c = "0" -> 0 [] c = "1" -> 1 [] c = "2" -> 2 [] c = "3" -> 3
      [] c = "4" -> 4 [] c = "5" -> 5 [] c = "6" -> 6 [] c = "7" -> 7
      [] c = "8" -> 8 [] c = "9" -> 9

\* the least element of a set of positions, 0 when it is empty
First(S) == IF S = {} THEN 0 ELSE CHOOSE j \in S : \A k \in S : j <= k

\* the greatest element of a set of positions, 0 when it is empty
Last(S) == IF S = {} THEN 0 ELSE CHOOSE j \in S : \A k \in S : j >= k

\* index of the first c in s at or after i, 0 when there is none
FindFrom(s, c, i) == First({ j \in i..Len(s) : Ch(s, j) = c })

Find(s, c) == FindFrom(s, c, 1)

RFindFrom(s, c, i) == Last({ j \in 1..i : Ch(s, j) = c })

RFind(s, c) == RFindFrom(s, c, Len(s))

Contains(s, c) == Find(s, c) # 0

RECURSIVE TrimStart(_)
TrimStart(s) ==
    IF Len(s) > 0 /\ IsWhitespace(Ch(s, 1)) THEN TrimStart(Drop(s, 1)) ELSE s

RECURSIVE TrimEnd(_)
TrimEnd(s) ==
    IF Len(s) > 0 /\ IsWhitespace(Ch(s, Len(s)))
    THEN TrimEnd(SubSeq(s, 1, Len(s) - 1))
    ELSE s

Trim(s) == TrimEnd(TrimStart(s))

RECURSIVE TrimStartMatches(_, _)
TrimStartMatches(s, c) ==
    IF Len(s) > 0 /\ Ch(s, 1) = c THEN TrimStartMatches(Drop(s, 1), c) ELSE s

RECURSIVE TrimEndMatches(_, _)
TrimEndMatches(s, c) ==
    IF Len(s) > 0 /\ Ch(s, Len(s)) = c
    THEN TrimEndMatches(SubSeq(s, 1, Len(s) - 1), c)
    ELSE s

\* str::trim_matches(c)
TrimMatches(s, c) == TrimEndMatches(TrimStartMatches(s, c), c)

RECURSIVE Split(_, _)
\* str::split(c): "a,,b" gives three parts, "" gives one empty part
Split(s, c) ==
    LET i == Find(s, c)
    IN  IF i = 0 THEN <<s>>
        ELSE <<SubSeq(s, 1, i - 1)>> \o Split(Drop(s, i), c)

RECURSIVE Join(_, _)
\* [String]::join(sep)
Join(parts, sep) ==
    IF Len(parts) = 0 THEN ""
    ELSE IF Len(parts) = 1 THEN parts[1]
    ELSE parts[1] \o sep \o Join(Tail(parts), sep)

RECURSIVE Replace(_, _, _)
\* str::replace(pat, to): the non-overlapping matches, left to right
Replace(s, pat, to) ==
    IF Len(s) < Len(pat) THEN s
    ELSE IF StartsWith(s, pat) THEN to \o Replace(Drop(s, Len(pat)), pat, to)
    ELSE Ch(s, 1) \o Replace(Drop(s, 1), pat, to)

MapSeq(Op(_), seq) == [i \in 1..Len(seq) |-> Op(seq[i])]

RECURSIVE FilterNonEmpty(_)
FilterNonEmpty(seq) ==
    IF Len(seq) = 0 THEN <<>>
    ELSE (IF seq[1] = "" THEN <<>> ELSE <<seq[1]>>) \o FilterNonEmpty(Tail(seq))

\* the length of the longest prefix of s, from position i, made of characters of set
TakeWhileLen(s, i, set) ==
    LET stop == First({ j \in i..Len(s) : Ch(s, j) \notin set })
    IN  IF stop = 0 THEN Len(s) - i + 1 ELSE stop - i

(***************************************************************************)
(* Numbers (str::parse::<i32>, str::parse::<f32>)                          *)
(***************************************************************************)

I32Max == 2147483647

None == <<>>

Some(v) == <<v>>

RECURSIVE DigitsValue(_, _)
\* the value of a digit string with accumulator acc, -1 when it exceeds I32Max
DigitsValue(s, acc) ==
    IF Len(s) = 0 THEN acc
    ELSE LET d == DigitVal(Ch(s, 1))
         IN  IF acc > (I32Max - d) \div 10 THEN -1
             ELSE DigitsValue(Drop(s, 1), acc * 10 + d)

AllDigits(s) == Len(s) > 0 /\ TakeWhileLen(s, 1, Digits) = Len(s)

\* str::parse::<i32>(): an optional sign and one or more digits, within 32 bits
ParseI32(s) ==
    LET neg == StartsWith(s, "-")
        Signed(body, mag) ==
            IF mag >= 0 THEN Some(IF neg THEN 0 - mag ELSE mag)
            ELSE IF neg /\ TrimStartMatches(body, "0") = "2147483648"
                 THEN Some((0 - I32Max) - 1)
            ELSE None
        Unsigned(body) ==
            IF ~AllDigits(body) THEN None ELSE Signed(body, DigitsValue(body, 0))
    IN  Unsigned(IF neg \/ StartsWith(s, "+") THEN Drop(s, 1) ELSE s)

RECURSIVE Pow10(_)
Pow10(k) == IF k = 0 THEN 1 ELSE 10 * Pow10(k - 1)

RECURSIVE Normalize(_, _)
\* n / 10^k with the trailing zeros of the fraction removed
Normalize(n, k) ==
    IF k > 0 /\ n % 10 = 0 THEN Normalize(n \div 10, k - 1) ELSE <<n, k>>

\* `i as f32`
IntAsF32(i) == <<i, 0>>

\* str::parse::<f32>() on plain decimals: sign? digits* ('.' digits*)? with at
\* least one digit (the inputs hold no exponent, "inf" or "nan" spelling)
ParseF32(s) ==
    LET neg == StartsWith(s, "-")
        Signed(fp, mag) ==
            IF mag < 0 THEN None
            ELSE Some(Normalize(IF neg THEN 0 - mag ELSE mag, Len(fp)))
        Parts(ip, fp) ==
            IF \/ Len(ip) + Len(fp) = 0
               \/ TakeWhileLen(ip, 1, Digits) # Len(ip)
               \/ TakeWhileLen(fp, 1, Digits) # Len(fp)
            THEN None
            ELSE Signed(fp, DigitsValue(ip \o fp, 0))
        AtDot(body, dot) ==
            IF dot = 0 THEN Parts(body, "")
            ELSE Parts(SubSeq(body, 1, dot - 1), Drop(body, dot))
        Unsigned(body) == AtDot(body, Find(body, "."))
    IN  Unsigned(IF neg \/ StartsWith(s, "+") THEN Drop(s, 1) ELSE s)

(***************************************************************************)
(* The grammars of parser/oso.rs.  A nom parser yields [ok, rest, val].    *)
(***************************************************************************)

Fail == [ok |-> FALSE]

Ok(rest, val) == [ok |-> TRUE, rest |-> rest, val |-> val]

IdentStart == Letters \cup {"_", "$"}

IdentRest == Letters \cup Digits \cup {"_", "$", "."}

SpaceTab == {" ", "\t"}

\* nom space1: one or more spaces or tabs; the number it takes, 0 when it fails
Space1Len(input) == TakeWhileLen(input, 1, SpaceTab)

parse_identifier(input) ==
    LET Rest(n, m) == Ok(Drop(input, n + m), SubSeq(input, 1, n + m))
        Start(n) == IF n = 0 THEN Fail ELSE Rest(n, TakeWhileLen(input, n + 1, IdentRest))
    IN  Start(TakeWhileLen(input, 1, IdentStart))

parse_int(input) ==
    LET Parsed(len, v) == IF v = None THEN Fail ELSE Ok(Drop(input, len), v[1])
        Number(sgn, n) ==
            IF n = 0 THEN Fail ELSE Parsed(sgn + n, ParseI32(SubSeq(input, 1, sgn + n)))
        Sign(sgn) == Number(sgn, TakeWhileLen(input, sgn + 1, Digits))
    IN  Sign(IF StartsWith(input, "+") \/ StartsWith(input, "-") THEN 1 ELSE 0)

\* the escape sequences parse_string replaces, in its order
UnescapeQuoted(s) ==
    Replace(Replace(Replace(Replace(Replace(s,
        "\\n", "\n"), "\\t", "\t"), "\\r", "\r"), "\\\"", "\""), "\\\\", "\\")

parse_string(input) ==
    LET Closed(close) ==
            IF close = 0 THEN Fail
            ELSE Ok(Drop(input, close), UnescapeQuoted(SubSeq(input, 2, close - 1)))
    IN  IF ~StartsWith(input, "\"") THEN Fail ELSE Closed(FindFrom(input, "\"", 2))

VersionTag == "OpenShadingLanguage"

parse_version(input) ==
    LET Made(major, rest, minor) ==
            Ok(rest, <<major.val, IF minor = None THEN 0 ELSE minor[1]>>)
        Minor(major, afterDot, n) ==
            IF n = 0 THEN Fail
            ELSE Made(major, Drop(afterDot, n), ParseI32(SubSeq(afterDot, 1, n)))
        Dot(major, afterDot) == Minor(major, afterDot, TakeWhileLen(afterDot, 1, Digits))
        Major(major) ==
            IF ~major.ok THEN Fail
            ELSE IF ~StartsWith(major.rest, ".") THEN Fail
            ELSE Dot(major, Drop(major.rest, 1))
        Tagged(sp) ==
            IF sp = 0 THEN Fail ELSE Major(parse_int(Drop(input, Len(VersionTag) + sp)))
    IN  IF ~StartsWith(input, VersionTag) THEN Fail
        ELSE Tagged(Space1Len(Drop(input, Len(VersionTag))))

parse_shader(input) ==
    LET Named(ty, name) == IF name.ok THEN Ok(name.rest, <<ty.val, name.val>>) ELSE Fail
        Name(ty, afterSp, quoted) ==
            IF quoted.ok THEN Named(ty, quoted) ELSE Named(ty, parse_identifier(afterSp))
        Spaced(ty, sp) ==
            IF sp = 0 THEN Fail
            ELSE Name(ty, Drop(ty.rest, sp), parse_string(Drop(ty.rest, sp)))
        Typed(ty) == IF ~ty.ok THEN Fail ELSE Spaced(ty, Space1Len(ty.rest))
    IN  Typed(parse_identifier(input))

\* nom alt of tag(...): the first keyword that is a prefix of the input
parse_symtype(input) ==
    IF StartsWith(input, "param") THEN Ok(Drop(input, 5), "Param")
    ELSE IF StartsWith(input, "oparam") THEN Ok(Drop(input, 6), "OutputParam")
    ELSE IF StartsWith(input, "local") THEN Ok(Drop(input, 5), "Local")
    ELSE IF StartsWith(input, "temp") THEN Ok(Drop(input, 4), "Temp")
    ELSE IF StartsWith(input, "global") THEN Ok(Drop(input, 6), "Global")
    ELSE IF StartsWith(input, "const") THEN Ok(Drop(input, 5), "Const")
    ELSE Fail

parse_typename(input) ==
    IF StartsWith(input, "int") THEN Ok(Drop(input, 3), "Int")
    ELSE IF StartsWith(input, "float") THEN Ok(Drop(input, 5), "Float")
    ELSE IF StartsWith(input, "string") THEN Ok(Drop(input, 6), "String")
    ELSE IF StartsWith(input, "color") THEN Ok(Drop(input, 5), "Color")
    ELSE IF StartsWith(input, "point") THEN Ok(Drop(input, 5), "Point")
    ELSE IF StartsWith(input, "vector") THEN Ok(Drop(input, 6), "Vector")
    ELSE IF StartsWith(input, "normal") THEN Ok(Drop(input, 6), "Normal")
    ELSE IF StartsWith(input, "matrix") THEN Ok(Drop(input, 6), "Matrix")
    ELSE Fail

\* TypeDesc::new
TypeDesc(basetype) == [basetype |-> basetype, arraylen |-> 0, is_closure |-> FALSE]

\* TypeSpec::new
TypeSpec(simpletype) == [simpletype |-> simpletype, structure |-> 0]

\* a variant of parse_array_spec without the alternative for "[]"
parse_array_spec_sized(input) ==
    LET Sized(n) ==
            IF n.ok /\ StartsWith(n.rest, "]") THEN Ok(Drop(n.rest, 1), Some(n.val))
            ELSE Ok(input, None)
    IN  IF StartsWith(input, "[") THEN Sized(parse_int(Drop(input, 1)))
        ELSE Ok(input, None)

\* opt(alt((value(-1, tag("[]")), delimited(char('['), parse_int, char(']'))))):
\* val is None when no array suffix is recognized, and then nothing is consumed
parse_array_spec(input) ==
    LET Sized(n) ==
            IF n.ok /\ StartsWith(n.rest, "]") THEN Ok(Drop(n.rest, 1), Some(n.val))
            ELSE Ok(input, None)
    IN  IF StartsWith(input, "[]") THEN Ok(Drop(input, 2), Some(-1))
        ELSE IF StartsWith(input, "[") THEN Sized(parse_int(Drop(input, 1)))
        ELSE Ok(input, None)

parse_closure(input) ==
    LET Made(arr) ==
            Ok(arr.rest,
               [basetype |-> "Color",
                arraylen |-> IF arr.val = None THEN 0 ELSE arr.val[1],
                is_closure |-> TRUE])
        Color(afterSp) ==
            IF ~StartsWith(afterSp, "color") THEN Fail
            ELSE Made(parse_array_spec(Drop(afterSp, 5)))
        Spaced(sp) == IF sp = 0 THEN Fail ELSE Color(Drop(input, 7 + sp))
    IN  IF ~StartsWith(input, "closure") THEN Fail
        ELSE Spaced(Space1Len(Drop(input, 7)))

parse_typespec(input) ==
    LET Made(tn, arr) ==
            Ok(arr.rest,
               TypeSpec([TypeDesc(tn.val) EXCEPT
                   !.arraylen = IF arr.val = None THEN 0 ELSE arr.val[1]]))
        Simple(tn) == IF ~tn.ok THEN Fail ELSE Made(tn, parse_array_spec(tn.rest))
        Closure(cl) ==
            IF cl.ok THEN Ok(cl.rest, TypeSpec(cl.val)) ELSE Simple(parse_typename(input))
    IN  Closure(parse_closure(input))

(***************************************************************************)
(* tokenize_line (parser/oso.rs)                                           *)
(***************************************************************************)

TokenWs == {" ", "\t", "\r", "\n"}

\* a variant of ClosingQuote that lets a blank close a string that no quote
\* closes
ClosingQuoteLoose(line, j) ==
    LET Closed(quote) ==
            IF quote # 0 THEN quote
            ELSE First({ k \in j..Len(line) : Ch(line, k) \in TokenWs })
    IN  Closed(First({ k \in j..Len(line) :
                         Ch(line, k) = "\"" /\ Ch(line, k - 1) # "\\" }))

\* the first quote at or after j that no backslash precedes, 0 when none
ClosingQuote(line, j) ==
    First({ k \in j..Len(line) : Ch(line, k) = "\"" /\ Ch(line, k - 1) # "\\" })

\* a variant of HintScan that does not count braces: the token ends at the
\* first whitespace
HintScanFlat(line, j, brace_count) ==
    LET Stopped(stop) ==
            IF stop = 0 THEN [why |-> "end", at |-> Len(line)]
            ELSE [why |-> "ws", at |-> stop]
    IN  Stopped(First({ k \in j..Len(line) : Ch(line, k) \in TokenWs }))

RECURSIVE HintScan(_, _, _)
\* the scan of the characters after a '%': where it breaks and why
HintScan(line, j, brace_count) ==
    IF j > Len(line) THEN [why |-> "end", at |-> Len(line)]
    ELSE IF Ch(line, j) = "{" THEN HintScan(line, j + 1, brace_count + 1)
    ELSE IF Ch(line, j) = "}"
         THEN IF brace_count - 1 = 0 THEN [why |-> "brace", at |-> j]
              ELSE HintScan(line, j + 1, brace_count - 1)
    ELSE IF brace_count = 0 /\ Ch(line, j) \in TokenWs THEN [why |-> "ws", at |-> j]
    ELSE HintScan(line, j + 1, brace_count)

\* the characters the match of tokenize_line has an arm for
TokenSpecial == TokenWs \cup {"\"", "%"}

RECURSIVE TokenizeFrom(_, _, _, _)
\* the tokens pushed from character i on, given in_token and current_start
TokenizeFrom(line, i, in_token, current_start) ==
    IF i > Len(line)
    THEN IF in_token THEN <<SubSeq(line, current_start, Len(line))>> ELSE <<>>
    ELSE LET ch == Ch(line, i)
             start == IF in_token THEN current_start ELSE i
         IN  IF ch = "\""
             THEN LET j == ClosingQuote(line, i + 1)
                  IN  IF j = 0
                      THEN TokenizeFrom(line, Len(line) + 1, TRUE, start)
                      ELSE <<SubSeq(line, start, j)>>
                               \o TokenizeFrom(line, j + 1, FALSE, start)
             ELSE IF ch = "%"
             THEN LET h == HintScan(line, i + 1, 0)
                  IN  IF h.why = "brace"
                      THEN <<SubSeq(line, start, h.at)>>
                               \o TokenizeFrom(line, h.at + 1, FALSE, start)
                      ELSE IF h.why = "ws"
                      THEN <<SubSeq(line, start, h.at - 1)>>
                               \o TokenizeFrom(line, h.at + 1, FALSE, start)
                      ELSE <<SubSeq(line, start, h.at)>>
             ELSE IF ch \in TokenWs
             THEN (IF in_token THEN <<SubSeq(line, current_start, i - 1)>> ELSE <<>>)
                      \o TokenizeFrom(line, i + 1 + TakeWhileLen(line, i + 1, TokenWs),
                                      FALSE, current_start)
             ELSE \* a run of regular characters: only its last one can close the token
                  LET stop == First({ j \in (i + 1)..Len(line) : Ch(line, j) \in TokenSpecial })
                      e == IF stop = 0 THEN Len(line) ELSE stop - 1
                  IN  IF e = Len(line) THEN <<SubSeq(line, start, e)>>
                      ELSE TokenizeFrom(line, e + 1, TRUE, start)

tokenize_line(line) == TokenizeFrom(line, 1, FALSE, 1)

(***************************************************************************)
(* parse_default_token (parser/oso.rs)                                     *)
(***************************************************************************)

\* the escape sequences parse_default_token replaces, in its order
UnescapeToken(s) ==
    Replace(Replace(Replace(Replace(Replace(s,
        "\\\\", "\\"), "\\n", "\n"), "\\t", "\t"), "\\r", "\r"), "\\\"", "\"")

\* &token[1..token.len() - 1] of a token that is one quote: the slice 1..0 panics
DefaultTokenPanics(token) == token = "\""

\* None, or Some of [kind, v] with kind "Int", "Float" or "String"
parse_default_token(token) ==
    LET AsFloat(f) == IF f # None THEN Some([kind |-> "Float", v |-> f[1]]) ELSE None
        AsInt(i) ==
            IF i # None /\ ~Contains(token, ".") THEN Some([kind |-> "Int", v |-> i[1]])
            ELSE AsFloat(ParseF32(token))
    IN  IF StartsWith(token, "\"") /\ EndsWith(token, "\"")
        THEN Some([kind |-> "String",
                   v |-> UnescapeToken(SubSeq(token, 2, Len(token) - 1))])
        ELSE AsInt(ParseI32(token))

(***************************************************************************)
(* ParsedParameter (parser/types.rs) and the hint parsers (parser/hint.rs) *)
(***************************************************************************)

\* ParsedParameter::new
ParsedParameter(name, type_desc) ==
    [name |-> name, type_desc |-> type_desc,
     is_output |-> FALSE, is_struct |-> FALSE,
     valid_default |-> FALSE, varlen_array |-> FALSE,
     idefault |-> <<>>, fdefault |-> <<>>, sdefault |-> <<>>,
     spacename |-> <<>>, structname |-> None, fields |-> <<>>,
     metadata |-> <<>>]

\* impl FromStr for BaseType, with parse_metadata_parts' unwrap_or(String)
MetaBaseType(s) ==
    CASE s = "int" -> "Int" [] s = "float" -> "Float" [] s = "string" -> "String"
      [] s = "color" -> "Color" [] s = "point" -> "Point" [] s = "vector" -> "Vector"
      [] s = "normal" -> "Normal" [] s = "matrix" -> "Matrix"
      [] OTHER -> "String"

parse_metadata_parts(type_str, name, value) ==
    LET Param(basetype) ==
            [ParsedParameter(name, TypeDesc(basetype)) EXCEPT !.valid_default = TRUE]
        AsString(basetype) == [Param(basetype) EXCEPT !.sdefault = <<value>>]
        AsFloat(basetype, f) ==
            IF f # None THEN [Param(basetype) EXCEPT !.fdefault = <<f[1]>>]
            ELSE AsString(basetype)
        AsInt(basetype, i) ==
            IF i # None THEN [Param(basetype) EXCEPT !.idefault = <<i[1]>>]
            ELSE AsString(basetype)
        Typed(basetype) ==
            IF basetype = "Int" THEN AsInt(basetype, ParseI32(value))
            ELSE IF basetype = "Float" THEN AsFloat(basetype, ParseF32(value))
            ELSE AsString(basetype)
    IN  Typed(MetaBaseType(type_str))

RECURSIVE QuotedPartsFrom(_, _, _, _, _, _)
QuotedPartsFrom(input, i, current, in_quotes, escape_next, parts) ==
    IF i > Len(input)
    THEN IF current # "" THEN Append(parts, current) ELSE parts
    ELSE LET ch == Ch(input, i)
         IN  IF escape_next
             THEN QuotedPartsFrom(input, i + 1, current \o ch, in_quotes, FALSE, parts)
             ELSE IF ch = "\\" /\ in_quotes
             THEN QuotedPartsFrom(input, i + 1, current, in_quotes, TRUE, parts)
             ELSE IF ch = "\""
             THEN IF in_quotes /\ current # ""
                  THEN \* the end of a quoted part: push it, skip the spaces after it
                       QuotedPartsFrom(input,
                           i + 1 + TakeWhileLen(input, i + 1, {" "}),
                           "", FALSE, FALSE, Append(parts, current))
                  ELSE QuotedPartsFrom(input, i + 1, current, ~in_quotes, FALSE, parts)
             ELSE IF ch = " " /\ ~in_quotes
             THEN QuotedPartsFrom(input, i + 1, "", in_quotes, FALSE,
                                  IF current # "" THEN Append(parts, current) ELSE parts)
             ELSE QuotedPartsFrom(input, i + 1, current \o ch, in_quotes, FALSE, parts)

parse_quoted_parts(input) == QuotedPartsFrom(input, 1, "", FALSE, FALSE, <<>>)

\* None for Err, Some(ParsedParameter) for Ok
parse_metadata_content(input) ==
    LET Quoted(parts) ==
            IF Len(parts) >= 3
            THEN Some(parse_metadata_parts(parts[1], parts[2],
                                           Join(SubSeq(parts, 3, Len(parts)), " ")))
            ELSE IF Len(parts) = 2
            THEN Some(parse_metadata_parts("string", parts[1], parts[2]))
            ELSE None
        Commas(split) ==
            IF Len(split) >= 3
            THEN Some(parse_metadata_parts(split[1], split[2],
                     TrimMatches(Trim(Join(SubSeq(split, 3, Len(split)), ",")), "\"")))
            ELSE Quoted(parse_quoted_parts(input))
    IN  IF Contains(input, ",") THEN Commas(MapSeq(Trim, Split(input, ",")))
        ELSE Quoted(parse_quoted_parts(input))

parse_metadata_hint(input) ==
    LET Until(body, end) ==
            parse_metadata_content(IF end = 0 THEN body ELSE SubSeq(body, 1, end - 1))
        Body(body) == Until(body, Find(body, "}"))
    IN  Body(IF StartsWith(input, "%meta{") THEN Drop(input, 6) ELSE input)

\* the text between the first '{' and the last '}', None when either is missing
BraceContent(input) ==
    LET Between(start, end) ==
            IF start = 0 \/ end = 0 THEN None
            ELSE Some(SubSeq(input, start + 1, end - 1))
    IN  Between(Find(input, "{"), RFind(input, "}"))

parse_structfields_hint(input) ==
    LET Fields(fields) == IF fields = <<>> THEN None ELSE Some(fields)
        Content(content) ==
            IF content = None THEN None
            ELSE Fields(FilterNonEmpty(MapSeq(Trim, Split(content[1], ","))))
    IN  Content(BraceContent(input))

parse_struct_hint(input) ==
    LET Name(name) == IF name = "" THEN None ELSE Some(name)
        Content(content) ==
            IF content = None THEN None ELSE Name(TrimMatches(Trim(content[1]), "\""))
    IN  Content(BraceContent(input))

parse_space_hint(input) ==
    LET Space(space) == IF space = "" THEN None ELSE Some(space)
        Content(content) ==
            IF content = None THEN None ELSE Space(TrimMatches(Trim(content[1]), "\""))
    IN  Content(BraceContent(input))

TrimElem(elem) == TrimMatches(Trim(elem), "\"")

parse_default_hint(input) ==
    LET Values(values) == IF values = <<>> THEN None ELSE Some(values)
        Content(content) ==
            IF content = "" THEN None
            ELSE IF StartsWith(content, "[") /\ EndsWith(content, "]")
            THEN Values(FilterNonEmpty(MapSeq(TrimElem,
                     Split(SubSeq(content, 2, Len(content) - 1), ","))))
            ELSE Values(<<TrimMatches(content, "\"")>>)
        Braces(braces) == IF braces = None THEN None ELSE Content(Trim(braces[1]))
    IN  Braces(BraceContent(input))

(***************************************************************************)
(* Parameter and impl TryFrom<ParsedParameter> for Parameter (types.rs)    *)
(***************************************************************************)

\* TypeDesc::is_array
is_array(type_desc) == type_desc.arraylen # 0

\* `arraylen as usize`: a negative length wraps around 2^64
AsUsize(n) == IF n >= 0 THEN n ELSE [two64_plus |-> n]

RECURSIVE ChunksExact(_, _)
\* slice::chunks_exact(n): the full chunks, the remainder dropped
ChunksExact(buf, n) ==
    IF Len(buf) < n THEN <<>>
    ELSE <<SubSeq(buf, 1, n)>> \o ChunksExact(SubSeq(buf, n + 1, Len(buf)), n)

\* BaseType::components
components(basetype) ==
    IF basetype \in {"Color", "Point", "Vector", "Normal"} THEN 3
    ELSE IF basetype = "Matrix" THEN 16
    ELSE 1

\* the arms for Int, Float and String: buf is idefault, fdefault or sdefault
ConvertPlain(old, buf) ==
    LET td == old.type_desc
        has == old.valid_default /\ buf # <<>>
    IN  IF is_array(td)
        THEN IF td.arraylen = -1
             THEN [variant |-> td.basetype \o "DynamicArray",
                   default |-> IF has THEN Some(buf) ELSE None]
             ELSE [variant |-> td.basetype \o "Array",
                   size |-> AsUsize(td.arraylen),
                   default |-> IF has THEN Some(buf) ELSE None]
        ELSE [variant |-> td.basetype,
              default |-> IF has THEN Some(buf[1]) ELSE None]

\* the arms for Color, Point, Vector and Normal
ConvertTriple(old) ==
    LET td == old.type_desc
        space == IF old.spacename = <<>> THEN None ELSE Some(old.spacename[1])
        arrays == IF old.valid_default /\ old.fdefault # <<>>
                  THEN Some(ChunksExact(old.fdefault, 3))
                  ELSE None
    IN  IF is_array(td)
        THEN IF td.arraylen = -1
             THEN [variant |-> td.basetype \o "DynamicArray",
                   default |-> arrays, space |-> space]
             ELSE [variant |-> td.basetype \o "Array",
                   size |-> AsUsize(td.arraylen),
                   default |-> arrays, space |-> space]
        ELSE [variant |-> td.basetype,
              default |-> IF old.valid_default /\ Len(old.fdefault) >= 3
                          THEN Some(SubSeq(old.fdefault, 1, 3))
                          ELSE None,
              space |-> space]

\* the arm for Matrix
ConvertMatrix(old) ==
    LET td == old.type_desc
        arrays == IF old.valid_default /\ old.fdefault # <<>>
                  THEN Some(ChunksExact(old.fdefault, 16))
                  ELSE None
    IN  IF is_array(td)
        THEN IF td.arraylen = -1
             THEN [variant |-> "MatrixDynamicArray", default |-> arrays]
             ELSE [variant |-> "MatrixArray", size |-> AsUsize(td.arraylen),
                   default |-> arrays]
        ELSE [variant |-> "Matrix",
              default |-> IF old.valid_default /\ Len(old.fdefault) >= 16
                          THEN Some(SubSeq(old.fdefault, 1, 16))
                          ELSE None]

\* the match on old.type_desc.basetype: None for the Err of a BaseType::None
\* that is no closure
TypedOf(old) ==
    LET bt == old.type_desc.basetype
    IN  IF bt = "Int" THEN Some(ConvertPlain(old, old.idefault))
        ELSE IF bt = "Float" THEN Some(ConvertPlain(old, old.fdefault))
        ELSE IF bt = "String" THEN Some(ConvertPlain(old, old.sdefault))
        ELSE IF bt \in {"Color", "Point", "Vector", "Normal"} THEN Some(ConvertTriple(old))
        ELSE IF bt = "Matrix" THEN Some(ConvertMatrix(old))
        ELSE IF old.type_desc.is_closure
        THEN Some([variant |-> "Closure",
                   closure_type |-> IF old.structname = None THEN "closure"
                                    ELSE old.structname[1]])
        ELSE None

\* Parameter::new_input
new_input(name, typed_param) ==
    [name |-> name, kind |-> "Input", typed_param |-> typed_param, metadata |-> <<>>]

\* a variant of new_output that keeps the default
new_output_keeping(name, typed_param) ==
    [name |-> name, kind |-> "Output", typed_param |-> typed_param, metadata |-> <<>>]

\* Parameter::new_output: the default of every variant but Closure is stripped
new_output(name, typed_param) ==
    [name |-> name, kind |-> "Output",
     typed_param |-> IF typed_param.variant = "Closure" THEN typed_param
                     ELSE [typed_param EXCEPT !.default = None],
     metadata |-> <<>>]

\* the MetadataValue of a metadata ParsedParameter, None when it holds no value
MetadataValueOf(meta) ==
    IF meta.idefault # <<>>
    THEN Some(IF Len(meta.idefault) = 1
              THEN [kind |-> "Int", v |-> meta.idefault[1]]
              ELSE [kind |-> "IntArray", v |-> meta.idefault])
    ELSE IF meta.fdefault # <<>>
    THEN Some(IF Len(meta.fdefault) = 1
              THEN [kind |-> "Float", v |-> meta.fdefault[1]]
              ELSE [kind |-> "FloatArray", v |-> meta.fdefault])
    ELSE IF meta.sdefault # <<>>
    THEN Some(IF Len(meta.sdefault) = 1
              THEN [kind |-> "String", v |-> meta.sdefault[1]]
              ELSE [kind |-> "StringArray", v |-> meta.sdefault])
    ELSE None

RECURSIVE ConvertMetadata(_)
\* the loop over old.metadata: an entry without a value is skipped
ConvertMetadata(metas) ==
    IF Len(metas) = 0 THEN <<>>
    ELSE LET v == MetadataValueOf(metas[1])
         IN  (IF v = None THEN <<>> ELSE <<[name |-> metas[1].name, value |-> v[1]]>>)
             \o ConvertMetadata(Tail(metas))

\* Parameter::try_from: None for Err, Some(Parameter) for Ok
TryFromParsed(old) ==
    LET Built(param) == Some([param EXCEPT !.metadata = ConvertMetadata(old.metadata)])
        Typed(typed) ==
            IF typed = None THEN None
            ELSE Built(IF old.is_output THEN new_output(old.name, typed[1])
                       ELSE new_input(old.name, typed[1]))
    IN  Typed(TypedOf(old))

(***************************************************************************)
(* OslQuery (query.rs)                                                     *)
(***************************************************************************)

\* OslQuery::new
OslQueryNew ==
    [shader_name |-> "", shader_type |-> "", parameters |-> <<>>, metadata |-> <<>>]

set_shader_info(query, shader_type, shader_name) ==
    [query EXCEPT !.shader_type = shader_type, !.shader_name = shader_name]

\* a variant of add_parameter that puts the parameter first
add_parameter_first(query, param) ==
    [query EXCEPT !.parameters = <<param>> \o @]

add_parameter(query, param) ==
    [query EXCEPT !.parameters = Append(@, param)]

\* a variant of param_by_name that returns the last parameter of the name
param_by_name_last(query, name) ==
    LET Found(i) == IF i = 0 THEN None ELSE Some(query.parameters[i])
    IN  Found(Last({ i \in 1..Len(query.parameters) : query.parameters[i].name = name }))

RECURSIVE FindParam(_, _, _)
\* self.parameters.iter().find(..), from the i-th parameter on
FindParam(parameters, name, i) ==
    IF i > Len(parameters) THEN None
    ELSE IF parameters[i].name = name THEN Some(parameters[i])
    ELSE FindParam(parameters, name, i + 1)

\* OslQuery::param_by_name
param_by_name(query, name) == FindParam(query.parameters, name, 1)

\* OslQuery::is_valid
is_valid(query) == query.shader_name # "" /\ query.shader_type # ""

add_metadata(query, meta) ==
    [query EXCEPT !.metadata = Append(@, meta)]

(***************************************************************************)
(* OsoReader (parser/reader.rs).  The operators below work on a record st  *)
(* holding the reader's fields (line_no, current_param, reading_param),    *)
(* the query under construction, and how the loop of parse_string goes on: *)
(* ctl is "loop", "break" or "return", result is the value returned.       *)
(***************************************************************************)

\* OsoReader::new, and the locals of parse_string before its loop
ReaderNew ==
    [line_no |-> 1, current_param |-> None, reading_param |-> FALSE,
     query |-> OslQueryNew, ctl |-> "loop", result |-> None]

\* a variant of finish_current_param that drops the parameter of an oparam
\* line
finish_current_param_inputs(st) ==
    LET Added(conv) == IF conv # None THEN add_parameter(st.query, conv[1]) ELSE st.query
    IN  [st EXCEPT
            !.query = IF st.current_param # None /\ ~st.current_param[1].is_output
                      THEN Added(TryFromParsed(st.current_param[1]))
                      ELSE @,
            !.current_param = None,
            !.reading_param = FALSE]

finish_current_param(st) ==
    LET Added(conv) == IF conv # None THEN add_parameter(st.query, conv[1]) ELSE st.query
    IN  [st EXCEPT
            !.query = IF st.current_param # None
                      THEN Added(TryFromParsed(st.current_param[1]))
                      ELSE @,
            !.current_param = None,
            !.reading_param = FALSE]

\* a variant of handle_symbol that opens a parameter for every symbol type
handle_symbol_any(st, symtype, typespec, name) ==
    LET param == [ParsedParameter(name, typespec.simpletype) EXCEPT
                     !.is_output = (symtype = "OutputParam"),
                     !.is_struct = (typespec.structure > 0),
                     !.varlen_array = (typespec.simpletype.arraylen = -1)]
        Opened(fin) ==
            [fin EXCEPT !.current_param = Some(param), !.reading_param = TRUE]
    IN  Opened(finish_current_param(st))

\* a variant of handle_symbol that opens a parameter without raising the
\* flag
handle_symbol_unflagged(st, symtype, typespec, name) ==
    LET param == [ParsedParameter(name, typespec.simpletype) EXCEPT
                     !.is_output = (symtype = "OutputParam"),
                     !.is_struct = (typespec.structure > 0),
                     !.varlen_array = (typespec.simpletype.arraylen = -1)]
        Opened(fin) ==
            IF symtype \in {"Param", "OutputParam"}
            THEN [fin EXCEPT !.current_param = Some(param)]
            ELSE [fin EXCEPT !.reading_param = FALSE]
    IN  Opened(finish_current_param(st))

handle_symbol(st, symtype, typespec, name) ==
    LET param == [ParsedParameter(name, typespec.simpletype) EXCEPT
                     !.is_output = (symtype = "OutputParam"),
                     !.is_struct = (typespec.structure > 0),
                     !.varlen_array = (typespec.simpletype.arraylen = -1)]
        Opened(fin) ==
            IF symtype \in {"Param", "OutputParam"}
            THEN [fin EXCEPT !.current_param = Some(param), !.reading_param = TRUE]
            ELSE [fin EXCEPT !.reading_param = FALSE]
    IN  Opened(finish_current_param(st))

\* a variant of parse_metadata that puts every entry in the query's list
parse_metadata_global(st, hint_str) ==
    LET Global(name, value) ==
            IF value = None THEN st
            ELSE [st EXCEPT !.query = add_metadata(@, [name |-> name, value |-> value[1]])]
        Parsed(meta) ==
            IF meta = None THEN st
            ELSE Global(meta[1].name, MetadataValueOf(meta[1]))
    IN  Parsed(parse_metadata_hint(hint_str))

parse_metadata(st, hint_str) ==
    LET Global(name, value) ==
            IF value = None THEN st
            ELSE [st EXCEPT !.query = add_metadata(@, [name |-> name, value |-> value[1]])]
        Parsed(meta) ==
            IF meta = None THEN st
            ELSE IF st.reading_param
            THEN IF st.current_param # None
                 THEN [st EXCEPT !.current_param[1].metadata = Append(@, meta[1])]
                 ELSE st
            ELSE Global(meta[1].name, MetadataValueOf(meta[1]))
    IN  Parsed(parse_metadata_hint(hint_str))

\* a variant of parse_struct_fields that empties the field list when the
\* hint names no field
parse_struct_fields_reset(st, hint_str) ==
    LET Parsed(fields) ==
            [st EXCEPT !.current_param[1].fields =
                           IF fields # None THEN fields[1] ELSE <<>>]
    IN  IF st.current_param # None THEN Parsed(parse_structfields_hint(hint_str)) ELSE st

parse_struct_fields(st, hint_str) ==
    LET Parsed(fields) ==
            IF fields # None THEN [st EXCEPT !.current_param[1].fields = fields[1]]
            ELSE st
    IN  IF st.current_param # None THEN Parsed(parse_structfields_hint(hint_str)) ELSE st

parse_struct_name(st, hint_str) ==
    IF st.current_param # None
    THEN [st EXCEPT !.current_param[1].structname = parse_struct_hint(hint_str)]
    ELSE st

reader_parse_space_hint(st, hint_str) ==
    LET Parsed(space) ==
            IF space # None
            THEN [st EXCEPT !.current_param[1].spacename = Append(@, space[1])]
            ELSE st
    IN  IF st.current_param # None THEN Parsed(parse_space_hint(hint_str)) ELSE st

RECURSIVE FilterMapParse(_, _)
\* values.iter().filter_map(|v| v.parse().ok()), for parse ParseI32 or ParseF32
FilterMapParse(Parse(_), values) ==
    IF Len(values) = 0 THEN <<>>
    ELSE Parse(values[1]) \o FilterMapParse(Parse, Tail(values))

FloatBased == {"Float", "Color", "Point", "Vector", "Normal", "Matrix"}

\* a variant of reader_parse_default_hint that leaves the flag as it is
reader_parse_default_hint_unflagged(st, hint_str) ==
    LET Extended(param, values) ==
            IF param.type_desc.basetype = "Int"
            THEN [param EXCEPT !.idefault = @ \o FilterMapParse(ParseI32, values)]
            ELSE IF param.type_desc.basetype \in FloatBased
            THEN [param EXCEPT !.fdefault = @ \o FilterMapParse(ParseF32, values)]
            ELSE IF param.type_desc.basetype = "String"
            THEN [param EXCEPT !.sdefault = @ \o values]
            ELSE param
        Parsed(values) ==
            IF values # None
            THEN [st EXCEPT !.current_param = Some(Extended(st.current_param[1], values[1]))]
            ELSE st
    IN  IF st.current_param # None THEN Parsed(parse_default_hint(hint_str)) ELSE st

reader_parse_default_hint(st, hint_str) ==
    LET Extended(param, values) ==
            IF param.type_desc.basetype = "Int"
            THEN [param EXCEPT !.idefault = @ \o FilterMapParse(ParseI32, values)]
            ELSE IF param.type_desc.basetype \in FloatBased
            THEN [param EXCEPT !.fdefault = @ \o FilterMapParse(ParseF32, values)]
            ELSE IF param.type_desc.basetype = "String"
            THEN [param EXCEPT !.sdefault = @ \o values]
            ELSE param
        Parsed(values) ==
            IF values # None
            THEN [st EXCEPT !.current_param =
                     Some([Extended(st.current_param[1], values[1])
                              EXCEPT !.valid_default = TRUE])]
            ELSE st
    IN  IF st.current_param # None THEN Parsed(parse_default_hint(hint_str)) ELSE st

\* a variant of ClearValidDefault that leaves the flag as it is
ClearValidDefaultKept(st) == st

\* the last arm of handle_hint
ClearValidDefault(st) ==
    [st EXCEPT !.current_param[1].valid_default = FALSE]

\* a variant of handle_hint that fails on a hint it does not recognize
handle_hint_strict(st, hint_str) ==
    IF StartsWith(hint_str, "%meta{") THEN parse_metadata(st, hint_str)
    ELSE IF st.reading_param /\ StartsWith(hint_str, "%structfields{")
    THEN parse_struct_fields(st, hint_str)
    ELSE IF st.reading_param /\ StartsWith(hint_str, "%struct{")
    THEN parse_struct_name(st, hint_str)
    ELSE IF st.reading_param /\ StartsWith(hint_str, "%space{")
    THEN reader_parse_space_hint(st, hint_str)
    ELSE IF st.reading_param /\ StartsWith(hint_str, "%default{")
    THEN reader_parse_default_hint(st, hint_str)
    ELSE IF st.reading_param /\ hint_str = "%initexpr" /\ st.current_param # None
    THEN ClearValidDefault(st)
    ELSE [st EXCEPT !.ctl = "return",
                    !.result = Some([kind |-> "ParseError", line |-> st.line_no,
                                     message |-> "Unknown hint", token_info |-> None])]

handle_hint(st, hint_str) ==
    IF StartsWith(hint_str, "%meta{") THEN parse_metadata(st, hint_str)
    ELSE IF st.reading_param /\ StartsWith(hint_str, "%structfields{")
    THEN parse_struct_fields(st, hint_str)
    ELSE IF st.reading_param /\ StartsWith(hint_str, "%struct{")
    THEN parse_struct_name(st, hint_str)
    ELSE IF st.reading_param /\ StartsWith(hint_str, "%space{")
    THEN reader_parse_space_hint(st, hint_str)
    ELSE IF st.reading_param /\ StartsWith(hint_str, "%default{")
    THEN reader_parse_default_hint(st, hint_str)
    ELSE IF st.reading_param /\ hint_str = "%initexpr" /\ st.current_param # None
    THEN ClearValidDefault(st)
    ELSE st

\* a variant of PushDefault without the arm that stores an integer token of
\* a float based type as a float
PushDefaultIntKept(param, default) ==
    LET pushed ==
            IF default.kind = "Int"
            THEN [param EXCEPT !.idefault = Append(@, default.v)]
            ELSE IF default.kind = "Float"
            THEN [param EXCEPT !.fdefault = Append(@, default.v)]
            ELSE [param EXCEPT !.sdefault = Append(@, default.v)]
    IN  [pushed EXCEPT !.valid_default = TRUE]

\* the match on a parsed default token: where its value is pushed
PushDefault(param, default) ==
    LET pushed ==
            IF default.kind = "Int"
            THEN IF param.type_desc.basetype \in FloatBased
                 THEN [param EXCEPT !.fdefault = Append(@, IntAsF32(default.v))]
                 ELSE [param EXCEPT !.idefault = Append(@, default.v)]
            ELSE IF default.kind = "Float"
            THEN [param EXCEPT !.fdefault = Append(@, default.v)]
            ELSE [param EXCEPT !.sdefault = Append(@, default.v)]
    IN  [pushed EXCEPT !.valid_default = TRUE]

RECURSIVE DefaultsFrom(_, _, _)
\* the first while loop of try_parse_symbol_line, from token_idx;
\* st.ctl becomes "panic" when parse_default_token panics
DefaultsFrom(st, tokens, token_idx) ==
    LET Pushed(default) ==
            IF default # None /\ st.current_param # None
            THEN [st EXCEPT !.current_param =
                     Some(PushDefault(st.current_param[1], default[1]))]
            ELSE st
    IN  IF token_idx > Len(tokens) \/ StartsWith(tokens[token_idx], "%")
        THEN [st |-> st, token_idx |-> token_idx]
        ELSE IF DefaultTokenPanics(tokens[token_idx])
        THEN [st |-> [st EXCEPT !.ctl = "panic"], token_idx |-> token_idx]
        ELSE DefaultsFrom(Pushed(parse_default_token(tokens[token_idx])),
                          tokens, token_idx + 1)

RECURSIVE HintsFrom(_, _, _)
\* handle_hint on every token from token_idx on that starts with '%'
HintsFrom(st, tokens, token_idx) ==
    IF token_idx > Len(tokens) THEN st
    ELSE HintsFrom(IF StartsWith(tokens[token_idx], "%")
                   THEN handle_hint(st, tokens[token_idx])
                   ELSE st,
                   tokens, token_idx + 1)

ParseErrorAt(line_no, message, token) ==
    [kind |-> "ParseError", line |-> line_no, message |-> message,
     token_info |-> Some(<<token, 1>>)]

\* [ret, st]: ret is "true" or "false" for Ok(true) and Ok(false), "err" for
\* Err (st.result holds the error), "panic" for a panic
try_parse_symbol_line(st, line) ==
    LET Err(tokens, message) ==
            [ret |-> "err",
             st |-> [st EXCEPT !.ctl = "return",
                               !.result = Some(ParseErrorAt(st.line_no, message, tokens[2]))]]
        Rest(tokens, defaults) ==
            IF defaults.st.ctl = "panic"
            THEN [ret |-> "panic",
                  st |-> [defaults.st EXCEPT !.ctl = "return",
                                             !.result = Some([kind |-> "Panic"])]]
            ELSE [ret |-> "true",
                  st |-> HintsFrom(defaults.st, tokens, defaults.token_idx)]
        Spec(tokens, symtype, typespec, next_token_idx, message) ==
            IF ~typespec.ok THEN Err(tokens, message)
            ELSE Rest(tokens,
                      DefaultsFrom(handle_symbol(st, symtype, typespec.val,
                                                 tokens[next_token_idx]),
                                   tokens, next_token_idx + 1))
        Typed(tokens, symtype, isClosure) ==
            IF isClosure /\ Len(tokens) < 4
            THEN Err(tokens, "Incomplete closure type specification")
            ELSE Spec(tokens, symtype,
                      parse_typespec(IF isClosure THEN "closure" \o " " \o tokens[3]
                                     ELSE tokens[2]),
                      IF isClosure THEN 4 ELSE 3,
                      IF isClosure
                      THEN "Invalid closure type: " \o tokens[2] \o " " \o tokens[3]
                      ELSE "Invalid type specification: " \o tokens[2])
        Sym(tokens, symtype) ==
            IF ~symtype.ok THEN [ret |-> "false", st |-> st]
            ELSE IF Len(tokens) < 3 THEN [ret |-> "false", st |-> st]
            ELSE Typed(tokens, symtype.val, tokens[2] = "closure")
        Tokens(tokens) ==
            IF tokens = <<>> THEN [ret |-> "false", st |-> st]
            ELSE Sym(tokens, parse_symtype(tokens[1]))
    IN  Tokens(tokenize_line(line))

(***************************************************************************)
(* The loop of OsoReader::parse_string: one branch per directive           *)
(***************************************************************************)

\* a variant of Advance that forgets to count the line
AdvanceUncounted(st) == st

\* self.line_no += 1, at the end of an iteration
Advance(st) == [st EXCEPT !.line_no = @ + 1]

\* line.trim().is_empty() || line.trim_start().starts_with('#')
IsSkipped(line) == Trim(line) = "" \/ StartsWith(TrimStart(line), "#")

IsShaderStart(line) ==
    \/ StartsWith(line, "shader ")
    \/ StartsWith(line, "surface ")
    \/ StartsWith(line, "displacement ")
    \/ StartsWith(line, "volume ")

\* try_parse_symbol_line does not return Ok(false): the line has three tokens
\* or more and the first begins with a symbol type
IsSymbolLine(line) ==
    LET Tokens(tokens) == Len(tokens) >= 3 /\ parse_symtype(tokens[1]).ok
    IN  Tokens(tokenize_line(line))

\* which arm of the if / else-if chain takes the line
LineClass(line) ==
    IF IsSkipped(line) THEN "skip"
    ELSE IF parse_version(line).ok THEN "version"
    ELSE IF IsShaderStart(line) THEN "shader"
    ELSE IF IsSymbolLine(line) THEN "symbol"
    ELSE IF StartsWith(line, "code") THEN "code"
    ELSE IF StartsWith(line, "%") THEN "hint"
    ELSE "other"

\* a variant of VersionBranch that rejects negative major versions only
VersionBranchLenient(st, line) ==
    LET Checked(version) ==
            IF version[1] < 0
            THEN [st EXCEPT !.ctl = "return",
                            !.result = Some([kind |-> "UnsupportedVersion",
                                             major |-> version[1], minor |-> version[2]])]
            ELSE Advance(st)
    IN  Checked(parse_version(line).val)

VersionBranch(st, line) ==
    LET Checked(version) ==
            IF version[1] < 1
            THEN [st EXCEPT !.ctl = "return",
                            !.result = Some([kind |-> "UnsupportedVersion",
                                             major |-> version[1], minor |-> version[2]])]
            ELSE Advance(st)
    IN  Checked(parse_version(line).val)

ShaderBranch(st, line) ==
    LET Parsed(sh) ==
            IF sh.ok
            THEN Advance(HintsFrom(
                     [st EXCEPT !.query = set_shader_info(@, sh.val[1], sh.val[2])],
                     tokenize_line(sh.rest), 1))
            ELSE Advance(st)
    IN  Parsed(parse_shader(line))

SymbolBranch(st, line) ==
    LET Parsed(sym) == IF sym.ret = "true" THEN Advance(sym.st) ELSE sym.st
    IN  Parsed(try_parse_symbol_line(st, line))

\* a variant of CodeBranch that goes on with the next line
CodeBranchOn(st) == Advance(finish_current_param(st))

CodeBranch(st) == [finish_current_param(st) EXCEPT !.ctl = "break"]

HintBranch(st, line) == Advance(handle_hint(st, line))

\* after the loop: the last parameter is added and the query returned
AfterLoop(st) ==
    LET Returned(fin) ==
            [fin EXCEPT !.ctl = "return",
                        !.result = Some([kind |-> "Ok", query |-> fin.query])]
    IN  Returned(finish_current_param(st))

\* one iteration of the loop
LoopBody(st, line) ==
    LET Arm(class) ==
            CASE class = "skip" -> Advance(st)
              [] class = "version" -> VersionBranch(st, line)
              [] class = "shader" -> ShaderBranch(st, line)
              [] class = "symbol" -> SymbolBranch(st, line)
              [] class = "code" -> CodeBranch(st)
              [] class = "hint" -> HintBranch(st, line)
              [] OTHER -> Advance(st)
    IN  Arm(LineClass(line))

RECURSIVE ParseLines(_, _, _)
ParseLines(st, lines, i) ==
    IF st.ctl = "return" THEN st
    ELSE IF st.ctl = "break" \/ i > Len(lines) THEN AfterLoop(st)
    ELSE ParseLines(LoopBody(st, lines[i]), lines, i + 1)

\* OsoReader::parse_string on the lines of the content: what it returns
reader_parse_string(lines) == ParseLines(ReaderNew, lines, 1).result[1]

(***************************************************************************)
(* The inputs: OSO texts, as sequences of lines                            *)
(***************************************************************************)

\* longest text of the free family
MaxLines == 3

CoreLines ==
    { "OpenShadingLanguage 1.12",
      "OpenShadingLanguage 0.9",
      "surface simple",
      "param float Kd 0.5",
      "oparam color Cout 1 0 0",
      "local int tmp 3",
      "code ___main___",
      "%initexpr",
      "%default{0.7}",
      "param badtype x" }

\* every text of at most MaxLines core lines
CoreContents == UNION { [1..n -> CoreLines] : n \in 0..MaxLines }

\* the texts  pre \o <<line>> \o post
Wrap(pres, lines, posts) ==
    { pre \o <<line>> \o post : pre \in pres, line \in lines, post \in posts }

\* one row per base type and default value: the type's keyword, the name of
\* its variants, the value tokens as written, and the value they denote
BaseCases ==
    << [type |-> "int", base |-> "Int", toks |-> "42", expect |-> 42],
       [type |-> "int", base |-> "Int", toks |-> "-10", expect |-> 0 - 10],
       [type |-> "float", base |-> "Float", toks |-> "0.5", expect |-> <<5, 1>>],
       [type |-> "float", base |-> "Float", toks |-> "1", expect |-> <<1, 0>>],
       [type |-> "float", base |-> "Float", toks |-> "-2.25", expect |-> <<0 - 225, 2>>],
       [type |-> "string", base |-> "String", toks |-> "\"hello world\"",
        expect |-> "hello world"],
       [type |-> "string", base |-> "String", toks |-> "\"\"", expect |-> ""],
       [type |-> "color", base |-> "Color", toks |-> "1 0 0",
        expect |-> << <<1, 0>>, <<0, 0>>, <<0, 0>> >>],
       [type |-> "color", base |-> "Color", toks |-> "0.5 0.25 1",
        expect |-> << <<5, 1>>, <<25, 2>>, <<1, 0>> >>],
       [type |-> "point", base |-> "Point", toks |-> "0 0 1.5",
        expect |-> << <<0, 0>>, <<0, 0>>, <<15, 1>> >>],
       [type |-> "vector", base |-> "Vector", toks |-> "0 1 0",
        expect |-> << <<0, 0>>, <<1, 0>>, <<0, 0>> >>],
       [type |-> "normal", base |-> "Normal", toks |-> "0 0 -1",
        expect |-> << <<0, 0>>, <<0, 0>>, <<0 - 1, 0>> >>],
       [type |-> "matrix", base |-> "Matrix", toks |-> "1 0 0 0 0 1 0 0 0 0 1 0 0 0 0 1",
        expect |-> << <<1, 0>>, <<0, 0>>, <<0, 0>>, <<0, 0>>,
                      <<0, 0>>, <<1, 0>>, <<0, 0>>, <<0, 0>>,
                      <<0, 0>>, <<0, 0>>, <<1, 0>>, <<0, 0>>,
                      <<0, 0>>, <<0, 0>>, <<0, 0>>, <<1, 0>> >>] >>

CaseIds == 1..Len(BaseCases)

\* array suffixes as written, with the number between the brackets
Suffixes ==
    << [text |-> "", shape |-> "none", len |-> 0],
       [text |-> "[]", shape |-> "empty", len |-> 0],
       [text |-> "[0]", shape |-> "digits", len |-> 0],
       [text |-> "[1]", shape |-> "digits", len |-> 1],
       [text |-> "[2]", shape |-> "digits", len |-> 2],
       [text |-> "[12]", shape |-> "digits", len |-> 12],
       [text |-> "[007]", shape |-> "digits", len |-> 7],
       [text |-> "[2147483647]", shape |-> "digits", len |-> I32Max],
       [text |-> "[2147483648]", shape |-> "beyond", len |-> 0] >>

SuffixIds == 1..Len(Suffixes)

DeclSyms == {"param", "oparam"}

DeclTrails == <<"", " %initexpr", " %initexpr %default{0.7}">>

\* name of the parameter of a case line
DeclName == "val"

\* "<sym> <type><suffix> <name>[ <values>]<hints>"
DeclLine(sym, c, s, with_values, t) ==
    sym \o " " \o BaseCases[c].type \o Suffixes[s].text \o " " \o DeclName
        \o (IF with_values THEN " " \o BaseCases[c].toks ELSE "") \o DeclTrails[t]

DeclLines ==
    { DeclLine(sym, c, s, w, t) :
        sym \in DeclSyms, c \in CaseIds, s \in SuffixIds, w \in BOOLEAN,
        t \in 1..Len(DeclTrails) }

\* a declaration written with tabs, as oslc does
TabLine(c) ==
    "param\t" \o BaseCases[c].type \o "\t" \o DeclName \o "\t" \o BaseCases[c].toks

TabLines == { TabLine(c) : c \in CaseIds }

DeclPres == { <<>>, <<"surface simple", "param float Kd 0.5">> }

DeclPosts ==
    { <<>>, <<"code ___main___", "param badtype x">>, <<"%initexpr">>,
      <<"%default{[1, 0.5, 0]}">> }

DeclContents == Wrap(DeclPres, DeclLines \cup TabLines, DeclPosts)

\* version numbers as written, with the numbers they denote
VersionCases ==
    << [text |-> "0.9", major |-> 0, minor |-> 9],
       [text |-> "0.0", major |-> 0, minor |-> 0],
       [text |-> "-1.5", major |-> 0 - 1, minor |-> 5],
       [text |-> "1.0", major |-> 1, minor |-> 0],
       [text |-> "1.12", major |-> 1, minor |-> 12],
       [text |-> "2.7", major |-> 2, minor |-> 7] >>

VersionIds == 1..Len(VersionCases)

VersionSeps == {" ", "\t"}

VersionLineOf(v, sep) == "OpenShadingLanguage" \o sep \o VersionCases[v].text

VersionLines == { VersionLineOf(v, sep) : v \in VersionIds, sep \in VersionSeps }

VersionPres == { <<>>, <<"param float Kd 0.5">>, <<"code ___main___">>, <<"# oso">> }

VersionPosts == { <<>>, <<"surface simple">> }

VersionContents == Wrap(VersionPres, VersionLines, VersionPosts)

\* symbol declarations that are not parameters
OtherSyms == {"local", "temp", "global", "const"}

OtherTypes == {"int", "float", "color", "string", "float[2]"}

OtherTrails == {"", " 3", " 3 %meta{string,help,\"h\"}", " %initexpr"}

OtherName == "tmp"

OtherLine(sym, type, trail) == sym \o " " \o type \o " " \o OtherName \o trail

OtherLines ==
    { OtherLine(sym, type, trail) :
        sym \in OtherSyms, type \in OtherTypes, trail \in OtherTrails }

OtherPres == { <<>>, <<"param float Kd 0.5">> }

OtherPosts == { <<>>, <<"%default{0.7}">>, <<"oparam color Cout 1 0 0">> }

OtherContents == Wrap(OtherPres, OtherLines, OtherPosts)

\* shader declarations
ShaderKeywords == {"shader", "surface", "displacement", "volume"}

ShaderSeps == {" ", "\t", "  "}

\* names as written, with the name each denotes
ShaderNames ==
    << [text |-> "simple", name |-> "simple"],
       [text |-> "\"simple\"", name |-> "simple"],
       [text |-> "_3DelightMaterial", name |-> "_3DelightMaterial"] >>

ShaderNameIds == 1..Len(ShaderNames)

ShaderTrails == {"", " %meta{string,help,\"h\"}"}

ShaderLineOf(keyword, sep, n) == keyword \o sep \o ShaderNames[n].text

ShaderLines ==
    { ShaderLineOf(keyword, sep, n) \o trail :
        keyword \in ShaderKeywords, sep \in ShaderSeps, n \in ShaderNameIds,
        trail \in ShaderTrails }

ShaderPres == { <<>>, <<"OpenShadingLanguage 1.12">>, <<"param float Kd 0.5">> }

ShaderPosts == { <<>>, <<"code ___main___">> }

ShaderContents == Wrap(ShaderPres, ShaderLines, ShaderPosts)

\* metadata hints in their two encodings
MetaTypes == {"string", "int", "float"}

MetaNames == {"help", "UImin"}

MetaValues == {"h", "5", "0.5", "two words", "", "a,b", "a,b,c", "a\\\\b"}

CommaForm(type, name, value) ==
    "%meta{" \o type \o "," \o name \o ",\"" \o value \o "\"}"

SpaceForm(type, name, value) ==
    "%meta{" \o type \o " " \o name \o " \"" \o value \o "\"}"

\* both encodings of one entry, on two lines of their own or behind a declaration
MetaPairs ==
    { <<CommaForm(type, name, value), SpaceForm(type, name, value)>> :
        type \in MetaTypes, name \in MetaNames, value \in MetaValues }

MetaContents ==
    { pre \o pair : pre \in { <<>>, <<"param float Kd 0.5">> }, pair \in MetaPairs }
        \cup { <<"param float Kd 0.5 " \o pair[1] \o " " \o pair[2]>> : pair \in MetaPairs }

\* a line after a declaration that holds %initexpr and a blank behind it
InitexprBlank == "%initexpr "

InitexprContents ==
    { <<DeclLine("param", c, 1, TRUE, 1), InitexprBlank>> : c \in CaseIds }

\* %structfields hints as written, with the names each holds
FieldHints ==
    << [text |-> "%structfields{a,b,c}", fields |-> <<"a", "b", "c">>],
       [text |-> "%structfields{ foo , bar }", fields |-> <<"foo", "bar">>],
       [text |-> "%structfields{x}", fields |-> <<"x">>],
       [text |-> "%structfields{u,,v}", fields |-> <<"u", "v">>],
       [text |-> "%structfields{}", fields |-> <<>>],
       [text |-> "%structfields{ , }", fields |-> <<>>] >>

FieldHintIds == 1..Len(FieldHints)

\* a declaration with two %structfields hints behind it
FieldLine(h1, h2) ==
    "param int val 1 " \o FieldHints[h1].text \o " " \o FieldHints[h2].text

\* the hints as trailing tokens, and as two lines of their own
FieldContents ==
    { <<FieldLine(h1, h2)>> : h1 \in FieldHintIds, h2 \in FieldHintIds }
        \cup { <<"param float Kd 0.5", FieldHints[h1].text, FieldHints[h2].text>> :
                  h1 \in FieldHintIds, h2 \in FieldHintIds }

\* declarations of closures: "<sym> closure color <name>" and what follows
ClosureSyms == {"param", "oparam"}

ClosureTrails == {"", " 1 0 0", " %default{[1, 0.5, 0]}", " %struct{\"bsdf\"}"}

ClosureName == "Ci"

ClosureLine(sym, sep, trail) ==
    sym \o sep \o "closure" \o sep \o "color" \o sep \o ClosureName \o trail

ClosureLines ==
    { ClosureLine(sym, sep, trail) :
        sym \in ClosureSyms, sep \in {" ", "\t"}, trail \in ClosureTrails }

ClosurePres == { <<>>, <<"param float Kd 0.5">> }

ClosurePosts == { <<>>, <<"%default{[1, 0.5, 0]}">>, <<"code ___main___">> }

ClosureContents == Wrap(ClosurePres, ClosureLines, ClosurePosts)

\* symbol lines whose type fails parse_typespec: what follows the symbol
\* kind, and the type token
BadTypes ==
    << [text |-> "badtype x", token |-> "badtype"],
       [text |-> "Int x 1", token |-> "Int"],
       [text |-> "[2] x 1 2", token |-> "[2]"],
       [text |-> "\"int\" x %meta{string,help,\"h\"}", token |-> "\"int\""],
       [text |-> "closure x y", token |-> "closure"],
       [text |-> "closure float Ci", token |-> "closure"] >>

BadTypeIds == 1..Len(BadTypes)

AllSyms == {"param", "oparam", "local", "temp", "global", "const"}

BadTypeLine(sym, sep, b) == sym \o sep \o BadTypes[b].text

BadTypeLines ==
    { BadTypeLine(sym, sep, b) : sym \in AllSyms, sep \in {" ", "\t"}, b \in BadTypeIds }

BadTypePres ==
    { <<>>, <<"">>, <<"# comment", "  ", "param float Kd 0.5">>,
      <<"surface simple", "%meta{string,help,\"h\"}">> }

BadTypePosts == { <<>>, <<"param float Kd 0.5">> }

BadTypeContents == Wrap(BadTypePres, BadTypeLines, BadTypePosts)

\* lines that begin with a symbol kind and have fewer than three tokens
ShortSymLines == {"param", "local tmp", "oparam float", "const\tint"}

ShortSymHints == {"%initexpr", "%meta{string,help,\"h\"}", "%space{\"world\"}"}

\* a declaration, such a line, and a hint line or nothing
ShortSymContents ==
    { <<"param float Kd 0.5", short>> : short \in ShortSymLines }
        \cup { <<"param float Kd 0.5", short, hint>> :
                  short \in ShortSymLines, hint \in ShortSymHints }

\* lines that hold %meta hints: the names of the entries in the order of the
\* hints, and what the line is
MetaLines ==
    << [text |-> "%meta{string,help,\"h\"}", names |-> <<"help">>, is |-> "hint"],
       [text |-> "%meta{int,UImin,0}", names |-> <<"UImin">>, is |-> "hint"],
       [text |-> "%meta{float UImax 1.5}", names |-> <<"UImax">>, is |-> "hint"],
       [text |-> "param float Kd 0.5", names |-> <<>>, is |-> "param"],
       [text |-> "oparam color Cout %meta{int,UImin,0} %meta{string,help,\"h\"}",
        names |-> <<"UImin", "help">>, is |-> "param"],
       [text |-> "local int tmp 3 %meta{string,help,\"h\"}",
        names |-> <<"help">>, is |-> "other"],
       [text |-> "surface simple %meta{float UImax 1.5}",
        names |-> <<"UImax">>, is |-> "shader"] >>

MetaLineIds == 1..Len(MetaLines)

MetaLineContents ==
    UNION { { [i \in 1..n |-> MetaLines[ids[i]].text] : ids \in [1..n -> MetaLineIds] } :
              n \in 0..MaxLines }

\* %default hints as written: the type of the parameter they follow, the
\* buffer of its basetype and the values written, in their order
DefaultHints ==
    << [type |-> "int", hint |-> "%default{7}", buf |-> "idefault", values |-> <<7>>],
       [type |-> "int", hint |-> "%default{-3}", buf |-> "idefault", values |-> <<0 - 3>>],
       [type |-> "int[3]", hint |-> "%default{[1, 2, 3]}", buf |-> "idefault",
        values |-> <<1, 2, 3>>],
       [type |-> "float", hint |-> "%default{0.5}", buf |-> "fdefault",
        values |-> << <<5, 1>> >>],
       [type |-> "float[]", hint |-> "%default{[0.5,1]}", buf |-> "fdefault",
        values |-> << <<5, 1>>, <<1, 0>> >>],
       [type |-> "color", hint |-> "%default{[1, 0.5, 0]}", buf |-> "fdefault",
        values |-> << <<1, 0>>, <<5, 1>>, <<0, 0>> >>],
       [type |-> "point", hint |-> "%default{[0,0,-1.5]}", buf |-> "fdefault",
        values |-> << <<0, 0>>, <<0, 0>>, <<0 - 15, 1>> >>],
       [type |-> "normal[2]", hint |-> "%default{[0,1,0,0,0,1]}", buf |-> "fdefault",
        values |-> << <<0, 0>>, <<1, 0>>, <<0, 0>>, <<0, 0>>, <<0, 0>>, <<1, 0>> >>],
       [type |-> "matrix", hint |-> "%default{2}", buf |-> "fdefault",
        values |-> << <<2, 0>> >>],
       [type |-> "string", hint |-> "%default{\"abc\"}", buf |-> "sdefault",
        values |-> <<"abc">>],
       [type |-> "string", hint |-> "%default{a b}", buf |-> "sdefault",
        values |-> <<"a b">>],
       [type |-> "string", hint |-> "%default{\"\"}", buf |-> "sdefault",
        values |-> <<"">>],
       [type |-> "string[2]", hint |-> "%default{[\"a\", \"b\"]}", buf |-> "sdefault",
        values |-> <<"a", "b">>],
       [type |-> "string[2]", hint |-> "%default{[\"\", \"a\"]}", buf |-> "sdefault",
        values |-> <<"", "a">>] >>

DefaultHintIds == 1..Len(DefaultHints)

\* a declaration without default tokens
BareDeclLine(sym, d) == sym \o " " \o DefaultHints[d].type \o " " \o DeclName

\* the hint as the trailing token of the declaration, and on the next line
DefaultHintContents ==
    { pre \o <<BareDeclLine(sym, d) \o " " \o DefaultHints[d].hint>> \o post :
        pre \in { <<>>, <<"surface simple">> }, sym \in DeclSyms, d \in DefaultHintIds,
        post \in { <<>>, <<"code ___main___">> } }
    \cup { pre \o <<BareDeclLine(sym, d), DefaultHints[d].hint>> \o post :
             pre \in { <<>>, <<"surface simple">> }, sym \in DeclSyms, d \in DefaultHintIds,
             post \in { <<>>, <<"code ___main___">> } }

\* the geometric base types with the number of floats of one value
Geoms ==
    << [type |-> "color", size |-> 3], [type |-> "point", size |-> 3],
       [type |-> "vector", size |-> 3], [type |-> "normal", size |-> 3],
       [type |-> "matrix", size |-> 16] >>

GeomIds == 1..Len(Geoms)

\* how many default tokens a declaration of the type is given
GeomCounts(g) == IF Geoms[g].size = 3 THEN 0..7 ELSE {0, 1, 15, 16, 17}

RECURSIVE Repeat(_, _)
\* n copies of a text
Repeat(text, n) == IF n = 0 THEN "" ELSE text \o Repeat(text, n - 1)

GeomTrails == {"", " %initexpr"}

\* a scalar declaration of the type with n default tokens
GeomLine(g, n, trail) ==
    "param " \o Geoms[g].type \o " " \o DeclName \o Repeat(" 1", n) \o trail

GeomContents ==
    UNION { { <<GeomLine(g, n, trail)>> \o post :
                n \in GeomCounts(g), trail \in GeomTrails,
                post \in { <<>>, <<"code ___main___">> } } : g \in GeomIds }

\* type tokens that are no base-type keyword with an optional complete
\* array suffix: extra characters behind the keyword or the suffix, a
\* bracket that is not closed
LooseTypes ==
    {"intx", "int[2", "int[", "float[2]junk", "float[]]", "colorspace", "string[a]",
     "matrix4", "pointer[3]"}

LooseTypeLine(sym, type) == sym \o " " \o type \o " " \o DeclName \o " 1"

LooseTypeContents ==
    { pre \o <<LooseTypeLine(sym, type)>> \o post :
        pre \in { <<>>, <<"surface simple">> }, sym \in AllSyms, type \in LooseTypes,
        post \in { <<>>, <<"code ___main___">> } }

\* lines that match no directive: blank lines, comments, other text
PlainIgnored ==
    {"", "   ", "\t", "# comment", "  # indented comment", "#param float x 1",
     "hello world", "42", "param", "Shader simple", "openshadinglanguage 1.12"}

\* hint lines whose tag handle_hint has no arm for
UnknownHints ==
    {"%read{1,2}", "%write{2,3}", "%argrw{\"wr\"}", "%argderivs{2}", "%", "%default",
     "%defaults{1}", "%metadata{int,a,1}", "% meta{int,a,1}", "%initexpr{}"}

\* declarations that such a hint is put behind, as the last token
HintedBases ==
    {"param float Kd 0.5", "oparam color Cout 1 0 0", "local int tmp 3",
     "param string s \"a\" %meta{string,help,\"h\"}", "surface simple"}

IgnoredPres ==
    { <<>>, <<"surface simple">>, <<"param float Kd 0.5">>,
      <<"surface simple", "oparam color Cout %meta{int,UImin,0}">> }

IgnoredPosts == { <<>>, <<"%meta{string,help,\"h\"}">> }

IgnoredContents ==
    Wrap(IgnoredPres, PlainIgnored \cup UnknownHints, IgnoredPosts)
    \cup Wrap(IgnoredPres, { base \o " " \o hint : base \in HintedBases, hint \in UnknownHints },
              IgnoredPosts)

\* what can follow the name of a float parameter on its line: the text, what
\* it does to the valid-default flag, the floats it collects
FlagTokens ==
    << [text |-> "", effect |-> "none", floats |-> <<>>],
       [text |-> " 0.5", effect |-> "set", floats |-> << <<5, 1>> >>],
       [text |-> " abc", effect |-> "none", floats |-> <<>>] >>

\* hints, with what each does to the flag and the floats it collects
FlagHints ==
    << [text |-> "%initexpr", effect |-> "clear", floats |-> <<>>],
       [text |-> "%default{0.7}", effect |-> "set", floats |-> << <<7, 1>> >>],
       [text |-> "%default{abc}", effect |-> "set", floats |-> <<>>],
       [text |-> "%default{}", effect |-> "none", floats |-> <<>>],
       [text |-> "%default{[ ]}", effect |-> "none", floats |-> <<>>],
       [text |-> "%read{1,2}", effect |-> "none", floats |-> <<>>] >>

\* the sequences of at most two hints
FlagHintSeqs == UNION { [1..n -> 1..Len(FlagHints)] : n \in 0..2 }

RECURSIVE FlagTrail(_, _)
\* the first k hints of the sequence as tokens behind the declaration
FlagTrail(hs, k) ==
    IF k = 0 THEN "" ELSE FlagTrail(hs, k - 1) \o " " \o FlagHints[hs[k]].text

\* the declaration with the first k hints on its line and the others on
\* lines of their own
FlagContent(t, hs, k) ==
    <<"param float Kd" \o FlagTokens[t].text \o FlagTrail(hs, k)>>
        \o [i \in 1..(Len(hs) - k) |-> FlagHints[hs[k + i]].text]

FlagContents ==
    UNION { { FlagContent(t, hs, k) : t \in 1..Len(FlagTokens), k \in 0..Len(hs) } :
              hs \in FlagHintSeqs }

\* hint blocks that are put two by two behind a declaration or on the line
\* after it
PairHints ==
    {"%meta{int,UImin,1}", "%meta{string,help,\"h\"}", "%space{\"world\"}",
     "%default{[0.5, 0.5, 1]}", "%initexpr", "%structfields{a,b}", "%struct{\"S\"}",
     "%read{1,2}"}

\* the declaration the hints belong to
PairBase == "param color Cs 1 0 0"

\* two hints as trailing tokens of the declaration
PairTrailing(h1, h2) == <<PairBase \o " " \o h1 \o " " \o h2>>

\* two hints on one line behind the declaration
PairStandalone(h1, h2) == <<PairBase, h1 \o " " \o h2>>

PairContents ==
    { PairTrailing(h1, h2) : h1 \in PairHints, h2 \in PairHints }
        \cup { PairStandalone(h1, h2) : h1 \in PairHints, h2 \in PairHints }

Contents ==
    CoreContents \cup DeclContents \cup VersionContents \cup OtherContents
        \cup ShaderContents \cup MetaContents \cup InitexprContents \cup FieldContents \cup ClosureContents \cup BadTypeContents \cup ShortSymContents \cup MetaLineContents \cup DefaultHintContents \cup GeomContents \cup LooseTypeContents \cup IgnoredContents \cup FlagContents \cup PairContents

(***************************************************************************)
(* The reader as a state machine: one step per line of the text            *)
(***************************************************************************)

VARIABLES content, pos, line_no, current_param, reading_param, query, ctl, result

vars == <<content, pos, line_no, current_param, reading_param, query, ctl, result>>

\* the reader's fields, as the operators above take them
Reader ==
    [line_no |-> line_no, current_param |-> current_param,
     reading_param |-> reading_param, query |-> query, ctl |-> ctl, result |-> result]

Become(st) ==
    /\ line_no' = st.line_no
    /\ current_param' = st.current_param
    /\ reading_param' = st.reading_param
    /\ query' = st.query
    /\ ctl' = st.ctl
    /\ result' = st.result
    /\ pos' = IF st.ctl = "loop" THEN pos + 1 ELSE pos
    /\ UNCHANGED content

\* OsoReader::new, OslQuery::new and the text handed to parse_string
Init ==
    /\ content \in Contents
    /\ pos = 1
    /\ line_no = ReaderNew.line_no
    /\ current_param = ReaderNew.current_param
    /\ reading_param = ReaderNew.reading_param
    /\ query = ReaderNew.query
    /\ ctl = ReaderNew.ctl
    /\ result = ReaderNew.result

\* the loop is at a line that the given arm takes
AtLine(class) ==
    /\ ctl = "loop"
    /\ pos <= Len(content)
    /\ LineClass(content[pos]) = class

SkipLine == AtLine("skip") /\ Become(Advance(Reader))

VersionLine == AtLine("version") /\ Become(VersionBranch(Reader, content[pos]))

ShaderLine == AtLine("shader") /\ Become(ShaderBranch(Reader, content[pos]))

SymbolLine == AtLine("symbol") /\ Become(SymbolBranch(Reader, content[pos]))

CodeLine == AtLine("code") /\ Become(CodeBranch(Reader))

HintLine == AtLine("hint") /\ Become(HintBranch(Reader, content[pos]))

IgnoredLine == AtLine("other") /\ Become(Advance(Reader))

\* the lines are exhausted or the loop was left at the code marker
Finish ==
    /\ ctl = "break" \/ (ctl = "loop" /\ pos > Len(content))
    /\ Become(AfterLoop(Reader))

Next ==
    \/ SkipLine
    \/ VersionLine
    \/ ShaderLine
    \/ SymbolLine
    \/ CodeLine
    \/ HintLine
    \/ IgnoredLine
    \/ Finish

Spec == Init /\ [][Next]_vars

(***************************************************************************)
(* Properties                                                              *)
(***************************************************************************)

\* parse_string has returned a query
ReturnedOk == ctl = "return" /\ result[1].kind = "Ok"

\* the parameters of the returned query
Parameters == result[1].query.parameters

\* the last line the loop has taken, once parse_string has returned
LastProcessed == IF pos > Len(content) THEN Len(content) ELSE pos

\* the symbol type a symbol line begins with
SymTypeOf(line) == parse_symtype(tokenize_line(line)[1]).val

\* the line declares a parameter
DeclaresParam(line) ==
    LineClass(line) = "symbol" /\ SymTypeOf(line) \in {"Param", "OutputParam"}

\* how many of the lines 1..i declare a parameter
Rank(i) == Cardinality({ j \in 1..i : DeclaresParam(content[j]) })

\* line j is taken while the parameter declared on line i is still open
InScope(i, j) ==
    /\ i < j /\ j <= LastProcessed
    /\ \A k \in (i + 1)..(j - 1) : LineClass(content[k]) \notin {"symbol", "code"}

\* the line hands a hint to handle_hint
CarriesHint(line) ==
    \/ LineClass(line) = "hint"
    \/ LineClass(line) = "shader" /\ Contains(line, "%")

\* no hint reaches the parameter declared on line i after its declaration
Undisturbed(i) ==
    \A j \in (i + 1)..LastProcessed : InScope(i, j) => ~CarriesHint(content[j])

\* "param <type> <name> <value>" for a row of BaseCases
ScalarLine(c) == DeclLine("param", c, 1, TRUE, 1)

\* the parameter is the input the row c describes
IsScalarInput(p, c) ==
    /\ p.name = DeclName
    /\ p.kind = "Input"
    /\ p.typed_param.variant = BaseCases[c].base
    /\ p.typed_param.default = Some(BaseCases[c].expect)

\* C1: a well-formed "param <type> <name> <value>" line of any base type
\* yields an input parameter of the scalar variant of that type whose
\* default is the converted value: integer tokens as floats for the float
\* based types, strings unquoted, the components of a geometric value or of
\* a matrix grouped into one tuple.
C1_ScalarDefault ==
    ReturnedOk =>
        \A i \in 1..LastProcessed : \A c \in CaseIds :
            (content[i] \in {ScalarLine(c), TabLine(c)} /\ Undisturbed(i))
                => IsScalarInput(Parameters[Rank(i)], c)

C1_Witness ==
    /\ ReturnedOk
    /\ \E i \in 1..LastProcessed : \E c \in CaseIds :
          /\ BaseCases[c].base = "Matrix"
          /\ content[i] = ScalarLine(c)
          /\ Rank(i) = 2
          /\ Undisturbed(i)
          /\ Len(Parameters[2].typed_param.default[1]) = 16

OutputDeclLines ==
    { DeclLine("oparam", c, s, w, t) :
        c \in CaseIds, s \in SuffixIds, w \in BOOLEAN, t \in 1..Len(DeclTrails) }
        \cup {"oparam color Cout 1 0 0"}

\* C2: every parameter declared with oparam is an output parameter whose
\* default is absent, whatever its type and array shape, whatever default
\* tokens its line carries and whatever %default hints follow it.
C2_OutputNoDefault ==
    ReturnedOk =>
        \A i \in 1..LastProcessed :
            content[i] \in OutputDeclLines
                => /\ Parameters[Rank(i)].kind = "Output"
                   /\ Parameters[Rank(i)].typed_param.default = None

C2_Witness ==
    /\ ReturnedOk
    /\ \E i \in 1..(LastProcessed - 1) :
          /\ content[i] = DeclLine("oparam", 8, 5, TRUE, 3)
          /\ content[i + 1] = "%default{[1, 0.5, 0]}"
          /\ Parameters[Rank(i)].typed_param.variant = "ColorArray"

\* the declarations of base type row c with array suffix s
SuffixLines ==
    [c \in CaseIds |-> [s \in SuffixIds |->
        { DeclLine(sym, c, s, w, t) :
            sym \in DeclSyms, w \in BOOLEAN, t \in 1..Len(DeclTrails) }]]

IsScalar(p, c) == p.typed_param.variant = BaseCases[c].base

IsDynamicArray(p, c) == p.typed_param.variant = BaseCases[c].base \o "DynamicArray"

IsFixedArray(p, c) == p.typed_param.variant = BaseCases[c].base \o "Array"

\* the variant the suffix s selects
ShapeOf(p, c, s) ==
    CASE Suffixes[s].shape = "none" -> IsScalar(p, c)
      [] Suffixes[s].shape = "empty" -> IsDynamicArray(p, c)
      [] Suffixes[s].shape = "digits" /\ Suffixes[s].len >= 1 ->
            IsFixedArray(p, c) /\ p.typed_param.size = Suffixes[s].len
      [] Suffixes[s].shape = "digits" /\ Suffixes[s].len = 0 -> IsScalar(p, c)
      [] OTHER -> TRUE

\* the variant the suffix s selects when every "[N]" is a fixed array of N
ShapeAsStated(p, c, s) ==
    CASE Suffixes[s].shape = "none" -> IsScalar(p, c)
      [] Suffixes[s].shape = "empty" -> IsDynamicArray(p, c)
      [] Suffixes[s].shape = "digits" ->
            IsFixedArray(p, c) /\ p.typed_param.size = Suffixes[s].len
      [] OTHER -> IsFixedArray(p, c)

\* C3: a type with the suffix "[]" yields a dynamic array variant, one with
\* the suffix "[N]", N a sequence of digits denoting a number from 1 to
\* 2147483647, yields a fixed array variant of size N, and one with no
\* suffix or with the suffix "[0]" yields a scalar variant.
C3_ArrayShape ==
    ReturnedOk =>
        \A i \in 1..LastProcessed : \A c \in CaseIds : \A s \in SuffixIds :
            content[i] \in SuffixLines[c][s] => ShapeOf(Parameters[Rank(i)], c, s)

\* C3 as stated: every suffix "[N]", N a sequence of digits, yields a fixed
\* array variant of size N.
C3_AsStated ==
    ReturnedOk =>
        \A i \in 1..LastProcessed : \A c \in CaseIds : \A s \in SuffixIds :
            content[i] \in SuffixLines[c][s]
                => ShapeAsStated(Parameters[Rank(i)], c, s)

C3_Witness ==
    /\ ReturnedOk
    /\ \E i \in 1..LastProcessed : \E c \in CaseIds :
          /\ content[i] \in SuffixLines[c][8]
          /\ Parameters[Rank(i)].typed_param.variant = "StringArray"
          /\ Parameters[Rank(i)].typed_param.size = I32Max

\* the error of a version line
Unsupported(v) ==
    [kind |-> "UnsupportedVersion",
     major |-> VersionCases[v].major, minor |-> VersionCases[v].minor]

Truncated(lines) ==
    LET Upto(k) == IF k = 0 THEN lines ELSE SubSeq(lines, 1, k)
    IN  Upto(First({ i \in 1..Len(lines) : StartsWith(lines[i], "code") }))

\* C5: the parse stops with success at the first line that begins with the
\* code marker: the open parameter is added before the loop is left, and
\* what is returned is what the text cut just after that line returns.
C5_StopsAtCode ==
    /\ ctl = "break" => current_param = None /\ ~reading_param
    /\ ctl = "return" =>
          /\ result[1] = reader_parse_string(Truncated(content))
          /\ (pos <= Len(content) /\ StartsWith(content[pos], "code"))
                => result[1].kind = "Ok"

C5_Witness ==
    /\ ReturnedOk
    /\ pos = 2 /\ Len(content) = 3
    /\ content[1] = "param float Kd 0.5"
    /\ StartsWith(content[2], "code")
    /\ content[3] = "param badtype x"
    /\ Len(Parameters) = 1

\* the name token of a declaration
DeclaredName(line) ==
    LET Name(tokens) == IF tokens[2] = "closure" THEN tokens[4] ELSE tokens[3]
    IN  Name(tokenize_line(line))

\* C6: the parameters of the returned query are in the order of their
\* declaration lines.
C6_DeclarationOrder ==
    ReturnedOk =>
        /\ Len(Parameters) = Rank(LastProcessed)
        /\ \A i \in 1..LastProcessed :
              DeclaresParam(content[i])
                  => Parameters[Rank(i)].name = DeclaredName(content[i])

C6_Witness ==
    /\ ReturnedOk
    /\ Len(Parameters) = 3
    /\ Parameters[1].name = "Cout"
    /\ Parameters[2].name = "Kd"
    /\ Parameters[3].name = "Cout"

\* the declarations of symbols that are no parameters
NonParamLines == OtherLines \cup {"local int tmp 3"}

\* C7: a line declaring a local, temp, global or const symbol adds no
\* parameter and leaves no parameter open; only param and oparam lines
\* produce parameters, as inputs and outputs respectively.
C7_OnlyParams ==
    /\ (ctl = "loop" /\ pos > 1 /\ content[pos - 1] \in NonParamLines)
          => /\ current_param = None
             /\ ~reading_param
             /\ Len(query.parameters) = Rank(pos - 1)
    /\ ReturnedOk =>
          /\ Len(Parameters) = Rank(LastProcessed)
          /\ \A i \in 1..LastProcessed :
                DeclaresParam(content[i])
                    => Parameters[Rank(i)].kind =
                          (IF StartsWith(content[i], "oparam") THEN "Output" ELSE "Input")

C7_Witness ==
    /\ ctl = "loop" /\ pos = 3
    /\ content[1] = "param float Kd 0.5"
    /\ content[2] = OtherLine("const", "color", " 3 %meta{string,help,\"h\"}")
    /\ current_param = None
    /\ Len(query.parameters) = 1

\* C8 as stated: once the loop has taken a line made of one of the four
\* keywords, whitespace (a space, a tab, two spaces) and a quoted or bare
\* name, the query's shader type is the keyword and its shader name the name
\* without quotes.
C8_AsStated ==
    (ctl = "loop" /\ pos > 1) =>
        \A keyword \in ShaderKeywords : \A sep \in ShaderSeps :
            \A n \in ShaderNameIds : \A trail \in ShaderTrails :
                content[pos - 1] = ShaderLineOf(keyword, sep, n) \o trail
                    => /\ query.shader_type = keyword
                       /\ query.shader_name = ShaderNames[n].name

\* the metadata entries a text of MetaContents yields: those of its
\* parameter, or those of the query when it declares none
MetaEntries ==
    IF Len(Parameters) > 0 THEN Parameters[1].metadata
    ELSE result[1].query.metadata

SameEntry(a, b) ==
    /\ a.name = b.name
    /\ a.value.kind = b.value.kind
    /\ a.value.v = b.value.v

\* C9 as stated: for every type, name and value the comma form and the
\* quoted-space form of a %meta hint yield two identical metadata entries
\* (same name, same value kind, same value).
C9_AsStated ==
    (ReturnedOk /\ content \in MetaContents)
        => /\ Len(MetaEntries) = 2
           /\ SameEntry(MetaEntries[1], MetaEntries[2])

\* param declarations with default values and no hint
PlainDefaultLines ==
    { DeclLine("param", c, s, TRUE, 1) : c \in CaseIds, s \in SuffixIds }
        \cup { TabLine(c) : c \in CaseIds } \cup { "param float Kd 0.5" }

\* param declarations with default values and the trailing hints DeclTrails[t]
TrailedDefaultLines(t) ==
    { DeclLine("param", c, s, TRUE, t) : c \in CaseIds, s \in SuffixIds }

\* the line holds a %default hint
HoldsDefaultHint(line) ==
    \E j \in 1..(Len(line) - 8) : SubSeq(line, j, j + 8) = "%default{"

\* no line holding a %default hint reaches the parameter declared on line i
NoLaterDefault(i) ==
    \A j \in (i + 1)..LastProcessed :
        InScope(i, j) => ~HoldsDefaultHint(content[j])

\* the default of the parameter declared on line i
DefaultOf(i) == Parameters[Rank(i)].typed_param.default

TokenPrefixes ==
    << <<>>,
       <<"param", "color", "Cs", "1", "0", "0">>,
       <<"oparam", "float", "x">> >>

\* runs of spaces and tabs
TokenSeps == <<" ", "\t", "  ", " \t ">>

\* hint blocks with balanced braces
TokenBlocks ==
    << "%meta{string,help,\"the color\"}",
       "%meta{string help \"two  words\"}",
       "%meta{string,help,\"a\tb, c\"}",
       "%meta{int,UImin,0}",
       "%meta{a{b c}d \"}",
       "%read{1,2}",
       "%structfields{a, b ,c}",
       "%struct{\"S\"}",
       "%default{[1, 0.5, 0]}",
       "%x{}" >>

\* what follows the block, with the tokens it holds
TokenTrails ==
    << [text |-> "", tokens |-> <<>>],
       [text |-> " ", tokens |-> <<>>],
       [text |-> " %initexpr", tokens |-> <<"%initexpr">>],
       [text |-> "\t%write{2, 3}  x", tokens |-> <<"%write{2, 3}", "x">>] >>

\* the words joined by the separator, the separator, the block, the trail
TokenLine(p, sep, b, t) ==
    Join(TokenPrefixes[p], TokenSeps[sep])
        \o (IF p = 1 /\ sep = 1 THEN "" ELSE TokenSeps[sep])
        \o TokenBlocks[b] \o TokenTrails[t].text

TokenLines ==
    { TokenLine(p, sep, b, t) :
        p \in 1..Len(TokenPrefixes), sep \in 1..Len(TokenSeps),
        b \in 1..Len(TokenBlocks), t \in 1..Len(TokenTrails) }

\* texts that open a quoted string or a hint block and never close it
UntermTails ==
    << "\"abc",
       "\"two words",
       "\"a\\\" b",
       "\"",
       "\"a %meta{b} c",
       "%meta{string,help,\"h\"",
       "%default{[1, 0.5",
       "%meta{a{b} c",
       "%x{ {} ",
       "%meta{\"a\" b\t" >>

\* the words joined by the separator, the separator, the unclosed text
UntermLine(p, sep, u) ==
    Join(TokenPrefixes[p], TokenSeps[sep])
        \o (IF p = 1 /\ sep = 1 THEN "" ELSE TokenSeps[sep])
        \o UntermTails[u]

UntermLines ==
    { UntermLine(p, sep, u) :
        p \in 1..Len(TokenPrefixes), sep \in 1..Len(TokenSeps), u \in 1..Len(UntermTails) }

\* lines that hold a quote or a % inside a word
GluedLines ==
    { "abc\"d e\"",
      "ab\"cd\"ef",
      "n=\"two words\" y",
      "x%meta{a b}",
      "param string s a\"b\"c 1",
      "50% off" }

\* the lines handed to tokenize_line
TokenInputs == TokenLines \cup UntermLines \cup GluedLines

TokenizeInit ==
    /\ content \in { <<line>> : line \in TokenInputs }
    /\ pos = 1
    /\ line_no = ReaderNew.line_no
    /\ current_param = ReaderNew.current_param
    /\ reading_param = ReaderNew.reading_param
    /\ query = ReaderNew.query
    /\ ctl = "loop"
    /\ result = <<>>

Tokenize ==
    /\ ctl = "loop"
    /\ result' = tokenize_line(content[pos])
    /\ ctl' = "return"
    /\ UNCHANGED <<content, pos, line_no, current_param, reading_param, query>>

TokenizeNext == Tokenize

TokenizeSpec == TokenizeInit /\ [][TokenizeNext]_vars

\* C11: a hint block with balanced braces that follows whitespace (or
\* starts the line) is exactly one token whatever whitespace, commas or
\* quotes it holds, and the words before it are split on runs of spaces and
\* tabs: the tokens are the words, the block, and the tokens behind it.
C11_HintBlockOneToken ==
    ctl = "return" =>
        \A p \in 1..Len(TokenPrefixes) : \A sep \in 1..Len(TokenSeps) :
            \A b \in 1..Len(TokenBlocks) : \A t \in 1..Len(TokenTrails) :
                content[1] = TokenLine(p, sep, b, t)
                    => result = TokenPrefixes[p] \o <<TokenBlocks[b]>>
                                    \o TokenTrails[t].tokens

\* the tab separated colour declaration with three values and one block
C11_Witness ==
    /\ ctl = "return"
    /\ content[1] = TokenLine(2, 2, 1, 1)
    /\ Len(result) = 7
    /\ result[7] = "%meta{string,help,\"the color\"}"

\* the field list after the hints h1 and h2, starting from the list before
FieldsAfter(before, h1, h2) ==
    IF FieldHints[h2].fields # <<>> THEN FieldHints[h2].fields
    ELSE IF FieldHints[h1].fields # <<>> THEN FieldHints[h1].fields
    ELSE before

\* C12: a %structfields hint with one or more names sets the field list of
\* the open parameter to these names, trimmed and in order; a %structfields
\* hint without a name leaves the field list as it was.
C12_StructFields ==
    (ctl = "loop" /\ pos > 1) =>
        \A h1 \in FieldHintIds : \A h2 \in FieldHintIds :
            /\ content[pos - 1] = FieldLine(h1, h2)
                  => /\ current_param # None
                     /\ current_param[1].fields = FieldsAfter(<<>>, h1, h2)
            /\ (/\ content = <<"param float Kd 0.5", FieldHints[h1].text,
                                FieldHints[h2].text>>
                /\ pos >= 3)
                  => /\ current_param # None
                     /\ current_param[1].fields =
                            IF pos = 3 THEN FieldHints[h1].fields
                            ELSE FieldsAfter(<<>>, h1, h2)

C12_Witness ==
    /\ ctl = "loop" /\ pos = 4
    /\ content = <<"param float Kd 0.5", "%structfields{ foo , bar }", "%structfields{}">>
    /\ current_param # None
    /\ current_param[1].fields = <<"foo", "bar">>

\* C13 as stated: a parameter declared by "param closure color <name> ..."
\* is a closure in the returned query and carries no default, whatever
\* default tokens or %default hints come with it.
C13_AsStated ==
    ReturnedOk => \A i \in 1..LastProcessed :
        \A sep \in {" ", "\t"} : \A trail \in ClosureTrails :
            content[i] = ClosureLine("param", sep, trail)
                => /\ Parameters[Rank(i)].typed_param.variant = "Closure"
                   /\ "default" \in DOMAIN Parameters[Rank(i)].typed_param
                         => Parameters[Rank(i)].typed_param.default = None

\* C14 as stated: a fixed array parameter of the returned query that carries
\* a default carries one of exactly as many elements (tuples, for the
\* geometric types) as its declared size.
C14_AsStated ==
    ReturnedOk => \A k \in 1..Len(Parameters) :
        ("size" \in DOMAIN Parameters[k].typed_param
            /\ Parameters[k].typed_param.default # None)
            => Len(Parameters[k].typed_param.default[1]) = Parameters[k].typed_param.size

\* the result is the ParseError of the given line and token
IsParseError(line, token) ==
    /\ result # None
    /\ result[1].kind = "ParseError"
    /\ result[1].line = line
    /\ result[1].token_info = Some(<<token, 1>>)

\* C15: a symbol line of any kind whose type fails the type grammar stops
\* the parse with a ParseError whose line is the number of that line in the
\* text, counted from 1 with blank and comment lines, and whose token is
\* the type token; the loop never goes past that line and no query is
\* returned.
C15_TypeError ==
    \A i \in 1..Len(content) : \A sym \in AllSyms : \A sep \in {" ", "\t"} :
        \A b \in BadTypeIds :
            (content \in BadTypeContents /\ content[i] = BadTypeLine(sym, sep, b))
                => /\ pos <= i
                   /\ ctl # "break"
                   /\ ctl = "return" => (pos = i /\ IsParseError(i, BadTypes[b].token))

C15_Witness ==
    /\ ctl = "return"
    /\ content = <<"# comment", "  ", "param float Kd 0.5", BadTypeLine("local", "\t", 3)>>
    /\ IsParseError(4, "[2]")

(***************************************************************************)
(* OslQuery::param_by_name on a query of a few parameters: result holds    *)
(* the name asked for and what the call returned                           *)
(***************************************************************************)

\* longest list of parameters of a query
MaxParams == 3

\* parameters that share names
LookupParams ==
    { new_input("Kd", [variant |-> "Float", default |-> Some(<<5, 1>>)]),
      new_input("Kd", [variant |-> "Int", default |-> Some(3)]),
      new_output("Cout", [variant |-> "Color", default |-> None, space |-> None]),
      new_input("Cout", [variant |-> "String", default |-> Some("a")]),
      new_input("tmp", [variant |-> "Int", default |-> None]) }

RECURSIVE AddAll(_, _, _)
\* the query after add_parameter for each of the parameters from the i-th on
AddAll(q, params, i) ==
    IF i > Len(params) THEN q ELSE AddAll(add_parameter(q, params[i]), params, i + 1)

LookupQueries ==
    { AddAll(OslQueryNew, params, 1) :
        params \in UNION { [1..n -> LookupParams] : n \in 0..MaxParams } }

LookupNames == {"Kd", "Cout", "tmp", ""}

LookupInit ==
    /\ content = <<>>
    /\ pos = 1
    /\ line_no = ReaderNew.line_no
    /\ current_param = ReaderNew.current_param
    /\ reading_param = ReaderNew.reading_param
    /\ query \in LookupQueries
    /\ ctl = "loop"
    /\ result = <<>>

ParamByName ==
    /\ ctl = "loop"
    /\ \E name \in LookupNames :
          result' = [name |-> name, found |-> param_by_name(query, name)]
    /\ ctl' = "return"
    /\ UNCHANGED <<content, pos, line_no, current_param, reading_param, query>>

LookupNext == ParamByName

LookupSpec == LookupInit /\ [][LookupNext]_vars

\* C16: param_by_name returns the first parameter, in declaration order,
\* whose name is the one asked for, and nothing when no parameter has it.
C16_FirstMatch ==
    ctl = "return" =>
        /\ result.found # None
              => \E i \in 1..Len(query.parameters) :
                    /\ query.parameters[i] = result.found[1]
                    /\ query.parameters[i].name = result.name
                    /\ \A j \in 1..(i - 1) : query.parameters[j].name # result.name
        /\ result.found = None
              => \A i \in 1..Len(query.parameters) :
                    query.parameters[i].name # result.name

\* two parameters of one name: the first one is returned
C16_Witness ==
    /\ ctl = "return"
    /\ Len(query.parameters) = 3
    /\ query.parameters[1].name = "Cout"
    /\ query.parameters[2].typed_param.variant = "Float"
    /\ query.parameters[3].name = "Kd"
    /\ query.parameters[3].typed_param.variant = "Int"
    /\ result.name = "Kd"
    /\ result.found # None
    /\ result.found[1].typed_param.variant = "Float"

\* C17 as stated: every query that parse_string returns with success
\* satisfies is_valid, i.e. has a shader name and a shader type that are not
\* empty.
C17_AsStated == ReturnedOk => is_valid(result[1].query)

\* the parameter that "param float Kd 0.5" alone declares
PlainKd == reader_parse_string(<<"param float Kd 0.5">>).query.parameters[1]

\* C18 as stated: a line that begins with a symbol kind closes the open
\* parameter even when it has fewer than three tokens, and the hints on the
\* lines after it do not change the parameter that was open before it.
C18_AsStated ==
    content \in ShortSymContents =>
        /\ (ctl = "loop" /\ pos >= 3)
              => /\ current_param = None
                 /\ query.parameters = <<PlainKd>>
        /\ ReturnedOk => Parameters = <<PlainKd>>

\* the %meta hint behind the shader declarations of ShaderLines, and its entry
ShaderMetaTrail == " %meta{string,help,\"h\"}"

ShaderMetaEntry == [name |-> "help", value |-> [kind |-> "String", v |-> "h"]]

\* C19 as stated: a %meta hint behind a shader declaration (keyword, spaces,
\* name) goes to the global metadata of the query and to no parameter,
\* wherever the declaration stands, also behind a param line.
C19_AsStated ==
    (ReturnedOk /\ content \in ShaderContents) =>
        \A i \in 1..LastProcessed : \A keyword \in ShaderKeywords :
            \A sep \in {" ", "  "} : \A n \in ShaderNameIds :
                content[i] = ShaderLineOf(keyword, sep, n) \o ShaderMetaTrail
                    => /\ result[1].query.metadata = <<ShaderMetaEntry>>
                       /\ \A k \in 1..Len(Parameters) : Parameters[k].metadata = <<>>

\* the names of a list of metadata entries, in order
NamesOf(entries) == [i \in 1..Len(entries) |-> entries[i].name]

\* the names of the entries of the open parameter
OpenNames == IF current_param = None THEN <<>> ELSE NamesOf(current_param[1].metadata)

\* the step closes the parameter that was open: it is the last of the
\* query's parameters, with its entries in the order they had
ClosesOpen ==
    IF current_param = None THEN query'.parameters = query.parameters
    ELSE /\ Len(query'.parameters) = Len(query.parameters) + 1
         /\ SubSeq(query'.parameters, 1, Len(query.parameters)) = query.parameters
         /\ NamesOf(query'.parameters[Len(query'.parameters)].metadata) = OpenNames

\* the step on the line x of MetaLines puts each entry in one place
MetaPlaced(x) ==
    IF MetaLines[x].is \in {"hint", "shader"}
    THEN IF current_param # None
         THEN /\ current_param' # None
              /\ NamesOf(current_param'[1].metadata) = OpenNames \o MetaLines[x].names
              /\ query'.metadata = query.metadata
              /\ query'.parameters = query.parameters
         ELSE /\ current_param' = None
              /\ NamesOf(query'.metadata) = NamesOf(query.metadata) \o MetaLines[x].names
              /\ query'.parameters = query.parameters
    ELSE IF MetaLines[x].is = "param"
    THEN /\ current_param' # None
         /\ NamesOf(current_param'[1].metadata) = MetaLines[x].names
         /\ query'.metadata = query.metadata
         /\ ClosesOpen
    ELSE /\ current_param' = None
         /\ NamesOf(query'.metadata) = NamesOf(query.metadata) \o MetaLines[x].names
         /\ ClosesOpen

MetaStep ==
    (content \in MetaLineContents /\ ctl = "loop") =>
        IF pos <= Len(content)
        THEN \A x \in MetaLineIds : content[pos] = MetaLines[x].text => MetaPlaced(x)
        ELSE query'.metadata = query.metadata /\ ClosesOpen

\* C20: every %meta hint that parses adds one entry to one list, that of
\* the open parameter when one is open and the global list of the query
\* otherwise, and the entries of a list stay in the order in which their
\* hints were read, also when the parameter is closed.
C20_MetaPlacement == [][MetaStep]_vars

C20_Witness ==
    /\ ReturnedOk
    /\ content = <<MetaLines[1].text, MetaLines[5].text, MetaLines[3].text>>
    /\ NamesOf(result[1].query.metadata) = <<"help">>
    /\ NamesOf(Parameters[1].metadata) = <<"UImin", "help", "UImax">>

\* line pos - 1 was the last to hand the hint of row d to the parameter that
\* the bare declaration of row d opened
HintedBy(d) ==
    /\ ctl = "loop" /\ pos > 1
    /\ \E sym \in DeclSyms :
          \/ content[pos - 1] = BareDeclLine(sym, d) \o " " \o DefaultHints[d].hint
          \/ /\ pos > 2
             /\ content[pos - 2] = BareDeclLine(sym, d)
             /\ content[pos - 1] = DefaultHints[d].hint

\* C21 as stated: for a parameter declared without default tokens, a hint
\* %default{v} or %default{[v1,...,vn]} leaves the buffer of the parameter's
\* basetype equal to the values written, in their order (integers for int,
\* floats for float and the geometric types, the strings themselves for
\* string), and sets the valid-default flag.
C21_AsStated ==
    \A d \in DefaultHintIds :
        HintedBy(d) =>
            /\ current_param # None
            /\ current_param[1][DefaultHints[d].buf] = DefaultHints[d].values
            /\ current_param[1].valid_default

\* C22 as stated: a scalar geometric parameter has no default when the
\* number of floats collected is not a multiple of the tuple size (3 for
\* color, point, vector and normal, 16 for matrix) or is less than one
\* tuple, and none when the valid-default flag is false or nothing was
\* collected.
C22_AsStated ==
    ReturnedOk =>
        \A g \in GeomIds : \A n \in GeomCounts(g) : \A trail \in GeomTrails :
            (/\ Len(content) >= 1
             /\ content[1] = GeomLine(g, n, trail)
             /\ Undisturbed(1)
             /\ \/ n % Geoms[g].size # 0
                \/ n < Geoms[g].size
                \/ trail = " %initexpr"
                \/ n = 0)
                => Parameters[1].typed_param.default = None

\* C23 as stated: a type token that is not exactly a base-type keyword with
\* an optional complete suffix [] or [N] fails the type grammar, and the
\* parse returns a ParseError for its line.
C23_AsStated ==
    \A i \in 1..Len(content) : \A sym \in AllSyms : \A type \in LooseTypes :
        (content \in LooseTypeContents /\ content[i] = LooseTypeLine(sym, type))
            => /\ pos <= i
               /\ ctl = "return" => IsParseError(i, type)

\* C24: a line whose last part opens a quoted string or a hint block that
\* is never closed is tokenized without failure: the tokens are the words
\* before it and, last, one token from the opening quote or % to the end of
\* the line.
C24_UnterminatedToEnd ==
    ctl = "return" =>
        \A p \in 1..Len(TokenPrefixes) : \A sep \in 1..Len(TokenSeps) :
            \A u \in 1..Len(UntermTails) :
                content[1] = UntermLine(p, sep, u)
                    => result = TokenPrefixes[p] \o <<UntermTails[u]>>

\* an unclosed string with a blank in it behind six words
C24_Witness ==
    /\ ctl = "return"
    /\ content[1] = UntermLine(2, 1, 2)
    /\ Len(result) = 7
    /\ result[7] = "\"two words"

\* the first place at or after from where the token occurs in the line, 0
\* when there is none
FindToken(line, token, from) ==
    First({ j \in from..(Len(line) - Len(token) + 1) :
              SubSeq(line, j, j + Len(token) - 1) = token })

RECURSIVE TokenStarts(_, _, _, _)
\* where the tokens from the k-th on lie in the line, one after the other,
\* the first of them at or after from; 0 for a token that does not
TokenStarts(line, tokens, k, from) ==
    LET At(s) ==
            IF s = 0 THEN <<0>>
            ELSE <<s>> \o TokenStarts(line, tokens, k + 1, s + Len(tokens[k]))
    IN  IF k > Len(tokens) THEN <<>> ELSE At(FindToken(line, tokens[k], from))

\* the tokens are non-empty pieces of the line that follow one another
\* from left to right without overlap
TokensInOrder(line, tokens, starts) ==
    /\ Len(starts) = Len(tokens)
    /\ \A k \in 1..Len(tokens) : tokens[k] # "" /\ starts[k] # 0

\* a token that begins with neither a quote nor % holds no blank and has a
\* blank, or an end of the line, on either side
PlainTokensMaximal(line, tokens, starts) ==
    \A k \in 1..Len(tokens) :
        (~StartsWith(tokens[k], "\"") /\ ~StartsWith(tokens[k], "%"))
            => /\ \A j \in 1..Len(tokens[k]) : Ch(tokens[k], j) \notin TokenWs
               /\ starts[k] = 1 \/ Ch(line, starts[k] - 1) \in TokenWs
               /\ \/ starts[k] + Len(tokens[k]) > Len(line)
                  \/ Ch(line, starts[k] + Len(tokens[k])) \in TokenWs

\* C25 as stated: every token that begins with neither a quote nor % is a
\* maximal run of characters that are no whitespace, and the tokens are
\* non-empty pieces of the line, in order from left to right, that do not
\* overlap.
C25_AsStated ==
    LET Holds(line, tokens, starts) ==
            /\ TokensInOrder(line, tokens, starts)
            /\ PlainTokensMaximal(line, tokens, starts)
    IN  ctl = "return" => Holds(content[1], result, TokenStarts(content[1], result, 1, 1))

\* the step takes a line that matches no directive, or a hint line with an
\* unknown tag: the loop goes on, nothing is returned, the query and the
\* open parameter are what they were
IgnoredStep ==
    (ctl = "loop" /\ pos <= Len(content) /\ content[pos] \in PlainIgnored \cup UnknownHints)
        => /\ ctl' = "loop"
           /\ result' = result
           /\ query' = query
           /\ current_param' = current_param
           /\ reading_param' = reading_param

\* the step takes a declaration with an unknown hint as its last token: it
\* ends as the step on the declaration without the hint does
TrailingStep ==
    LET Same(st) ==
            /\ ctl' = st.ctl
            /\ result' = st.result
            /\ query' = st.query
            /\ current_param' = st.current_param
            /\ reading_param' = st.reading_param
    IN  (ctl = "loop" /\ pos <= Len(content))
            => \A base \in HintedBases : \A hint \in UnknownHints :
                  content[pos] = base \o " " \o hint => Same(LoopBody(Reader, base))

AddsOpen ==
    IF current_param = None THEN query'.parameters = query.parameters
    ELSE /\ Len(query'.parameters) = Len(query.parameters) + 1
         /\ SubSeq(query'.parameters, 1, Len(query.parameters)) = query.parameters
         /\ query'.parameters[Len(query'.parameters)].name = current_param[1].name
         /\ query'.parameters[Len(query'.parameters)].kind =
                IF current_param[1].is_output THEN "Output" ELSE "Input"

\* a step of the loop: a symbol line that is taken closes the open
\* parameter and opens one when it is a param or oparam line; the code
\* marker and the end of the text close it; every other line leaves the
\* parameter open or absent as it was and adds nothing
ParamStep ==
    LET class == IF ctl = "loop" /\ pos <= Len(content) THEN LineClass(content[pos])
                 ELSE "end"
    IN  IF class = "symbol"
        THEN ctl' = "loop" =>
                /\ AddsOpen
                /\ (current_param' # None) = DeclaresParam(content[pos])
                /\ current_param' # None
                      => current_param'[1].name = DeclaredName(content[pos])
        ELSE IF class \in {"code", "end"}
        THEN AddsOpen /\ current_param' = None
        ELSE /\ query'.parameters = query.parameters
             /\ (current_param' = None) = (current_param = None)
             /\ current_param # None => current_param'[1].name = current_param[1].name

\* the query that is returned is the query built, and no parameter is open
ReturnsBuilt ==
    (ctl' = "return" /\ result'[1].kind = "Ok")
        => /\ result'[1].query = query'
           /\ current_param' = None

\* C27: every param or oparam line that opens a parameter gives one
\* parameter of the returned query, neither none nor two, whether the
\* parameter is closed by a later symbol line, by the code marker or by the
\* end of the text.
C27_OneParameterEach == [][ParamStep /\ ReturnsBuilt]_vars

\* Kd was closed by the next symbol line and Cout by the code marker
C27_Witness ==
    /\ ReturnedOk
    /\ content = <<"param float Kd 0.5", "oparam color Cout 1 0 0", "code ___main___">>
    /\ Len(Parameters) = 2
    /\ Parameters[1].name = "Kd"
    /\ Parameters[2].name = "Cout"

\* C28: before and after every line the flag reading_param is true exactly
\* when current_param holds a parameter; current_param holds one parameter
\* at most.
C28_FlagMatchesOpen ==
    /\ reading_param = (current_param # None)
    /\ Len(current_param) <= 1

\* a parameter is open after the first line, and the flag is up
C28_Witness ==
    /\ ctl = "loop"
    /\ pos = 2
    /\ content = <<"param float Kd 0.5", "local int tmp 3", "%initexpr">>
    /\ reading_param
    /\ current_param # None

RECURSIVE LastEffect(_, _)
\* the last of the first n effects that is not "none", "none" without one
LastEffect(effects, n) ==
    IF n = 0 THEN "none"
    ELSE IF effects[n] # "none" THEN effects[n]
    ELSE LastEffect(effects, n - 1)

\* the effects of the default token and of the hints, in their order
EffectsOf(t, hs) ==
    <<FlagTokens[t].effect>> \o [i \in 1..Len(hs) |-> FlagHints[hs[i]].effect]

RECURSIVE FloatsOf(_, _)
\* the floats that the first n hints collect
FloatsOf(hs, n) ==
    IF n = 0 THEN <<>> ELSE FloatsOf(hs, n - 1) \o FlagHints[hs[n]].floats

\* the flag and the buffer are those the events give, while the parameter
\* is open, and the default returned is the first float when the flag is up
FlagDecided(flag, floats) ==
    /\ (ctl = "loop" /\ pos = Len(content) + 1)
          => /\ current_param # None
             /\ current_param[1].valid_default = flag
             /\ current_param[1].fdefault = floats
    /\ ReturnedOk
          => Parameters[1].typed_param.default =
                 IF flag /\ floats # <<>> THEN Some(floats[1]) ELSE None

\* C29: the valid-default flag of a parameter, when it is closed, is what
\* the last event that touches it left: up after a default token that
\* parses or a %default hint that holds a value, down after %initexpr, down
\* when there was no event; a %default hint after %initexpr brings the
\* values collected before back.
C29_LastEventDecides ==
    content \in FlagContents =>
        \A t \in 1..Len(FlagTokens) : \A hs \in FlagHintSeqs : \A k \in 0..Len(hs) :
            content = FlagContent(t, hs, k)
                => FlagDecided(LastEffect(EffectsOf(t, hs), Len(hs) + 1) = "set",
                               FlagTokens[t].floats \o FloatsOf(hs, Len(hs)))

\* 0.5 on the line, %initexpr behind it, then a %default hint without a
\* float: the default is 0.5 again
C29_Witness ==
    /\ ReturnedOk
    /\ content = <<"param float Kd 0.5 %initexpr", "%default{abc}">>
    /\ Parameters[1].typed_param.default = Some(<<5, 1>>)

\* C30 as stated: a hint line that holds two hint blocks with a blank
\* between them leaves the open parameter and the query as the same two
\* blocks do when they are the trailing tokens of the parameter's line.
C30_AsStated ==
    LET Same(st) == current_param = st.current_param /\ query = st.query
    IN  \A h1 \in PairHints : \A h2 \in PairHints :
            (ctl = "loop" /\ pos = 3 /\ content = PairStandalone(h1, h2))
                => Same(LoopBody(ReaderNew, PairTrailing(h1, h2)[1]))

====
